---- MODULE Spec2Model ----
(***************************************************************************)
(* Model of the vingd Python client (src/vingd/client.py,                  *)
(* src/vingd/exceptions.py, src/vingd/response.py, src/vingd/util.py).     *)
(*                                                                         *)
(* Vingd.request is modelled as a small state machine per calling thread:  *)
(* the precondition checks and the creation of the HTTPSConnection, the    *)
(* blocking conn.request call, and the blocking getresponse/read/close     *)
(* followed by the classification of the response.  JSON documents are     *)
(* sequences of tokens, parsed by a recursive-descent parser; JSON values  *)
(* are tagged records.                                                     *)
(***************************************************************************)
EXTENDS Integers, Sequences, FiniteSets, TLC

(***************************************************************************)
(* Bounds of the model.                                                    *)
(***************************************************************************)
\* Number of threads that call into one shared client object.
NCallers == 2

\* Python's None, where a field or an argument may hold it.
NoneVal == "<None>"

(***************************************************************************)
(* response.Codes                                                          *)
(***************************************************************************)
OK == 200
CREATED == 201
NO_CONTENT == 204
PARTIAL_CONTENT == 206
MULTIPLE_CHOICES == 300
MOVED_PERMANENTLY == 301
BAD_REQUEST == 400
PAYMENT_REQUIRED == 402
FORBIDDEN == 403
NOT_FOUND == 404
CONFLICT == 409
GONE == 410
INTERNAL_SERVER_ERROR == 500
NOT_IMPLEMENTED == 501

(***************************************************************************)
(* JSON values: tagged records.  An object is a function from its keys to  *)
(* values (a Python dict), an array is a sequence (a Python list).         *)
(***************************************************************************)
JNull == [t |-> "null"]
JBool(b) == [t |-> "bool", b |-> b]
JNum(n) == [t |-> "num", n |-> n]
JStr(s) == [t |-> "str", s |-> s]
JArr(a) == [t |-> "arr", a |-> a]
JObj(m) == [t |-> "obj", m |-> m]

\* The empty dict.
EmptyMap == [k \in {} |-> JNull]

\* d[k] = v on a dict: a later member with the same key replaces the earlier.
MapPut(m, k, v) == [x \in (DOMAIN m) \cup {k} |-> IF x = k THEN v ELSE m[x]]

(***************************************************************************)
(* JSON text: a sequence of tokens.  "punct" tokens are the structural     *)
(* characters, "str" a string literal (v is its content), "num" a number   *)
(* literal (v is its decimal text), "lit" one of null/true/false, "junk"   *)
(* any other text (an HTML error page, a truncated literal).  A token      *)
(* whose text holds a byte >= 0x80 has ascii = FALSE.                      *)
(***************************************************************************)
Tok(k, v) == [k |-> k, v |-> v, ascii |-> TRUE]
TokU(k, v) == [k |-> k, v |-> v, ascii |-> FALSE]
P(c) == Tok("punct", c)

\* The integers that occur in documents, and int(text) of a number literal.
JsonInts == {0, 1, 4, 7, 42}
IntOfText(s) == CHOOSE n \in JsonInts : ToString(n) = s
IsIntText(s) == \E n \in JsonInts : ToString(n) = s

\* The order in which the members of an object are written.
KeyOrder ==
    <<"data", "message", "context", "errors", "oids", "oid", "desc", "balance",
      "description", "name", "url", "revoke">>

RECURSIVE DumpsArr(_, _)
RECURSIVE DumpsObj(_, _, _)
RECURSIVE Dumps(_)
\* json.dumps: the text of a value.
Dumps(v) ==
    CASE v.t = "null" -> <<Tok("lit", "null")>>
      [] v.t = "bool" -> <<Tok("lit", IF v.b THEN "true" ELSE "false")>>
      [] v.t = "num" -> <<Tok("num", ToString(v.n))>>
      [] v.t = "str" -> <<Tok("str", v.s)>>
      [] v.t = "arr" -> <<P("[")>> \o DumpsArr(v.a, 1) \o <<P("]")>>
      [] v.t = "obj" -> <<P("{")>> \o DumpsObj(v.m, 1, TRUE) \o <<P("}")>>

DumpsArr(a, i) ==
    IF i > Len(a) THEN <<>>
    ELSE (IF i > 1 THEN <<P(",")>> ELSE <<>>) \o Dumps(a[i]) \o DumpsArr(a, i + 1)

DumpsObj(m, i, first) ==
    IF i > Len(KeyOrder) THEN <<>>
    ELSE IF KeyOrder[i] \in DOMAIN m
         THEN (IF first THEN <<>> ELSE <<P(",")>>)
              \o <<Tok("str", KeyOrder[i]), P(":")>> \o Dumps(m[KeyOrder[i]])
              \o DumpsObj(m, i + 1, FALSE)
         ELSE DumpsObj(m, i + 1, first)

(***************************************************************************)
(* json.loads: recursive descent over the tokens.  A parse result is       *)
(* [ok, val, next]: next is the index of the first token not consumed.     *)
(***************************************************************************)
ParseFail == [ok |-> FALSE, val |-> JNull, next |-> 0]
ParseOk(v, n) == [ok |-> TRUE, val |-> v, next |-> n]
IsTok(toks, i, k, v) == i <= Len(toks) /\ toks[i].k = k /\ toks[i].v = v

RECURSIVE ParseValue(_, _)
RECURSIVE ParseElems(_, _, _)
RECURSIVE ParseMembers(_, _, _)
ParseValue(toks, i) ==
    IF i > Len(toks) THEN ParseFail
    ELSE LET tk == toks[i] IN
         CASE tk.k = "lit" /\ tk.v = "null" -> ParseOk(JNull, i + 1)
           [] tk.k = "lit" /\ tk.v = "true" -> ParseOk(JBool(TRUE), i + 1)
           [] tk.k = "lit" /\ tk.v = "false" -> ParseOk(JBool(FALSE), i + 1)
           [] tk.k = "num" /\ IsIntText(tk.v) -> ParseOk(JNum(IntOfText(tk.v)), i + 1)
           [] tk.k = "str" -> ParseOk(JStr(tk.v), i + 1)
           [] tk.k = "punct" /\ tk.v = "[" ->
                IF IsTok(toks, i + 1, "punct", "]") THEN ParseOk(JArr(<<>>), i + 2)
                ELSE ParseElems(toks, i + 1, <<>>)
           [] tk.k = "punct" /\ tk.v = "{" ->
                IF IsTok(toks, i + 1, "punct", "}") THEN ParseOk(JObj(EmptyMap), i + 2)
                ELSE ParseMembers(toks, i + 1, EmptyMap)
           [] OTHER -> ParseFail

\* value ("," value)* "]"
ParseElems(toks, i, acc) ==
    LET r == ParseValue(toks, i) IN
    IF ~r.ok THEN ParseFail
    ELSE IF IsTok(toks, r.next, "punct", "]")
         THEN ParseOk(JArr(Append(acc, r.val)), r.next + 1)
    ELSE IF IsTok(toks, r.next, "punct", ",")
         THEN ParseElems(toks, r.next + 1, Append(acc, r.val))
    ELSE ParseFail

\* string ":" value ("," string ":" value)* "}"
ParseMembers(toks, i, acc) ==
    IF ~(i + 1 <= Len(toks) /\ toks[i].k = "str" /\ IsTok(toks, i + 1, "punct", ":"))
    THEN ParseFail
    ELSE LET r == ParseValue(toks, i + 2) IN
         IF ~r.ok THEN ParseFail
         ELSE IF IsTok(toks, r.next, "punct", "}")
              THEN ParseOk(JObj(MapPut(acc, toks[i].v, r.val)), r.next + 1)
         ELSE IF IsTok(toks, r.next, "punct", ",")
              THEN ParseMembers(toks, r.next + 1, MapPut(acc, toks[i].v, r.val))
         ELSE ParseFail

\* json.loads(content): the value, or a failure (ValueError) when the text
\* is not one JSON document.
Loads(toks) ==
    LET r == ParseValue(toks, 1) IN
    IF r.ok /\ r.next = Len(toks) + 1 THEN [ok |-> TRUE, val |-> r.val]
    ELSE [ok |-> FALSE, val |-> JNull]

\* bytes.decode('ascii'): fails (UnicodeDecodeError) on any byte >= 0x80.
DecodesAscii(body) == \A i \in 1..Len(body) : body[i].ascii

\* content[key] where content is a parsed JSON value: only a dict that holds
\* the key answers; a missing key (KeyError) and a list, string, number,
\* bool or null (TypeError) fail.
HasItem(v, key) == v.t = "obj" /\ key \in DOMAIN v.m
GetItem(v, key) == v.m[key]

(***************************************************************************)
(* exceptions.py: the typed errors.  An exception value is a record; msg   *)
(* and context hold Python values (a str is JStr).                         *)
(***************************************************************************)
MakeExc(cls, msg, context, code) ==
    [cls |-> cls, msg |-> msg, context |-> context, code |-> code]

\* GeneralException(msg, context="Error", code=Codes.CONFLICT)
GeneralException(msg, context, code) == MakeExc("GeneralException", msg, context, code)
GeneralException2(msg, context) == GeneralException(msg, context, CONFLICT)
GeneralException1(msg) == GeneralException(msg, JStr("Error"), CONFLICT)

\* InvalidData(msg, context="Invalid data", code=Codes.BAD_REQUEST)
InvalidData2(msg, context) == MakeExc("InvalidData", msg, context, BAD_REQUEST)
InvalidData1(msg) == InvalidData2(msg, JStr("Invalid data"))

\* Forbidden(msg, context="Forbidden", code=Codes.FORBIDDEN)
Forbidden2(msg, context) == MakeExc("Forbidden", msg, context, FORBIDDEN)

\* NotFound(msg, context="Not found", code=Codes.NOT_FOUND)
NotFound2(msg, context) == MakeExc("NotFound", msg, context, NOT_FOUND)

\* InternalError(msg, context="Internal error", code=Codes.INTERNAL_SERVER_ERROR)
InternalError2(msg, context) == MakeExc("InternalError", msg, context, INTERNAL_SERVER_ERROR)
InternalError1(msg) == InternalError2(msg, JStr("Internal error"))

\* The classes of the taxonomy: GeneralException and its four subclasses.
TypedErrorClasses == {"GeneralException", "InvalidData", "Forbidden", "NotFound", "InternalError"}

\* An exception that is not of the taxonomy: the built-in Exception raised by
\* the client's own checks, or an error of the standard library that the code
\* lets through (socket.error, socket.timeout, UnicodeDecodeError, ...).
OtherExc(cls, msg) == [cls |-> cls, msg |-> JStr(msg)]

\* How a call ends.
Return(v) == [kind |-> "return", value |-> v]
Raise(e) == [kind |-> "raise", exc |-> e]
Pending == [kind |-> "pending"]

\* The raw text of a response body, as a Python str.
Text(body) == [t |-> "text", toks |-> body]

(***************************************************************************)
(* Vingd.request, lines 80-108: the classification of a completed response *)
(* (code, content).                                                        *)
(***************************************************************************)
\* Variant of NonJsonError: the status is not handed to the error.
NonJsonError_NoCode(content, code) ==
    GeneralException2(Text(content), JStr("Non-JSON server response"))

\* line 83
NonJsonError(content, code) ==
    GeneralException(Text(content), JStr("Non-JSON server response"), code)

\* Variant of IsSuccess: only 200 counts as success.
IsSuccess_OnlyOk(code) == code = OK

\* line 85
IsSuccess(code) == 200 <= code /\ code <= 299

\* Variant of ErrorEnvelope: a missing context reads as None (dict.get).
ErrorEnvelope_Lenient(content) ==
    IF HasItem(content, "message")
    THEN [ok |-> TRUE, message |-> GetItem(content, "message"),
          context |-> IF HasItem(content, "context") THEN GetItem(content, "context") ELSE JNull]
    ELSE [ok |-> FALSE, message |-> JNull, context |-> JNull]

\* lines 91-95: message = content['message']; context = content['context']
ErrorEnvelope(content) ==
    IF HasItem(content, "message") /\ HasItem(content, "context")
    THEN [ok |-> TRUE, message |-> GetItem(content, "message"),
          context |-> GetItem(content, "context")]
    ELSE [ok |-> FALSE, message |-> JNull, context |-> JNull]

\* Variant of Dispatch: the 403 branch raises the 404 class.
Dispatch_Swapped(code, message, context) ==
    IF code = BAD_REQUEST THEN InvalidData2(message, context)
    ELSE IF code = FORBIDDEN THEN NotFound2(message, context)
    ELSE IF code = NOT_FOUND THEN NotFound2(message, context)
    ELSE IF code = INTERNAL_SERVER_ERROR THEN InternalError2(message, context)
    ELSE IF code = CONFLICT THEN GeneralException2(message, context)
    ELSE GeneralException(message, context, code)

\* Variant of Dispatch: the last raise leaves the status out.
Dispatch_NoCode(code, message, context) ==
    IF code = BAD_REQUEST THEN InvalidData2(message, context)
    ELSE IF code = FORBIDDEN THEN Forbidden2(message, context)
    ELSE IF code = NOT_FOUND THEN NotFound2(message, context)
    ELSE IF code = INTERNAL_SERVER_ERROR THEN InternalError2(message, context)
    ELSE GeneralException2(message, context)

\* lines 97-108
Dispatch(code, message, context) ==
    IF code = BAD_REQUEST THEN InvalidData2(message, context)
    ELSE IF code = FORBIDDEN THEN Forbidden2(message, context)
    ELSE IF code = NOT_FOUND THEN NotFound2(message, context)
    ELSE IF code = INTERNAL_SERVER_ERROR THEN InternalError2(message, context)
    ELSE IF code = CONFLICT THEN GeneralException2(message, context)
    ELSE GeneralException(message, context, code)

\* lines 80-108
Classify(code, content) ==
    LET parsed == Loads(content) IN
    IF ~parsed.ok THEN Raise(NonJsonError(content, code))
    ELSE IF IsSuccess(code)
         THEN IF HasItem(parsed.val, "data")
              THEN Return(GetItem(parsed.val, "data"))
              ELSE Raise(InvalidData1(JStr("Invalid server DATA response format!")))
    ELSE LET env == ErrorEnvelope(parsed.val) IN
         IF ~env.ok
         THEN Raise(InvalidData1(JStr("Invalid server ERROR response format!")))
         ELSE Raise(Dispatch(code, env.message, env.context))

(***************************************************************************)
(* URLs.  A URL is a sequence of pieces: a piece is a run of letters,      *)
(* digits and "+-." (a word), or one delimiter (":", "/", " ").            *)
(***************************************************************************)
URL_ENDPOINT == <<"https", ":", "/", "/", "api.vingd.com", "/", "broker", "/", "v1">>
URL_ENDPOINT_SANDBOX ==
    <<"https", ":", "/", "/", "api.vingd.com", "/", "sandbox", "/", "broker", "/", "v1">>
URL_FRONTEND == "https://www.vingd.com"
URL_FRONTEND_SANDBOX == "https://www.sandbox.vingd.com"

Delimiters == {":", "/", " "}
IsWord(p) == p \notin Delimiters
DigitWords == {"443", "80"}

\* str.lower() of a word.
Lower(w) == CASE w = "HTTPS" -> "https" [] w = "HTTP" -> "http" [] OTHER -> w
\* str.upper() of a verb.
Upper(w) ==
    CASE w = "get" -> "GET" [] w = "post" -> "POST" [] w = "put" -> "PUT"
      [] w = "delete" -> "DELETE" [] OTHER -> w

\* url.find(':'), 1-based; 0 when there is none.
FirstColon(url) ==
    IF \E i \in 1..Len(url) : url[i] = ":"
    THEN CHOOSE i \in 1..Len(url) : url[i] = ":" /\ \A j \in 1..(i - 1) : url[j] # ":"
    ELSE 0

\* urlparse(url): the text before the first ":" is the scheme, lower-cased,
\* when it is made of scheme characters only and what follows the colon is not
\* a port number.
HasScheme(url) ==
    LET i == FirstColon(url) IN
    /\ i > 1
    /\ \A j \in 1..(i - 1) : IsWord(url[j])
    /\ (i = Len(url) \/ \E j \in (i + 1)..Len(url) : url[j] \notin DigitWords)

UrlScheme(url) == IF HasScheme(url) THEN Lower(url[1]) ELSE ""

\* What follows the scheme.
UrlRest(url) ==
    IF HasScheme(url) THEN SubSeq(url, FirstColon(url) + 1, Len(url)) ELSE url

\* urlparse(url).netloc: after a leading "//", up to the next "/".
HasNetloc(url) ==
    LET rest == UrlRest(url) IN Len(rest) >= 2 /\ rest[1] = "/" /\ rest[2] = "/"

NetlocEnd(rest) ==
    IF \E i \in 3..Len(rest) : rest[i] = "/"
    THEN (CHOOSE i \in 3..Len(rest) : rest[i] = "/" /\ \A j \in 3..(i - 1) : rest[j] # "/") - 1
    ELSE Len(rest)

UrlNetloc(url) ==
    IF HasNetloc(url) THEN SubSeq(UrlRest(url), 3, NetlocEnd(UrlRest(url))) ELSE <<>>

UrlPath(url) ==
    LET rest == UrlRest(url) IN
    IF HasNetloc(url) THEN SubSeq(rest, NetlocEnd(rest) + 1, Len(rest)) ELSE rest

\* line 65: endpoint.netloc.split(':')[0]
HostOf(netloc) ==
    LET i == FirstColon(netloc) IN
    IF i = 0 THEN netloc ELSE SubSeq(netloc, 1, i - 1)

\* line 67: urljoin(endpoint.path + '/', subpath), for a subpath that is a
\* relative reference with no scheme, no leading "/" and no dot segments.
UrlJoin(base, subpath) == base \o subpath

\* util.quote(path, safe='/=:%{}'): percent-encodes what is not safe.
QuotePiece(p) == IF p = " " THEN "%20" ELSE p
Quote(path) == [i \in 1..Len(path) |-> QuotePiece(path[i])]

\* line 69: 'Basic ' + base64.b64encode("%s:%s" % (key, secret))
B64(s) == "b64(" \o s \o ")"
PyStr(v) == IF v = NoneVal THEN "None" ELSE v
AuthHeader(key, secret) == "Basic " \o B64(PyStr(key) \o ":" \o PyStr(secret))

(***************************************************************************)
(* Python truth of a str-or-None value, `a or b`, and util.hash.           *)
(***************************************************************************)
Truthy(v) == v # NoneVal /\ v # ""
PyOr(a, b) == IF Truthy(a) THEN a ELSE b

\* util.py line 19
Hash(msg) == IF Truthy(msg) THEN "sha1(" \o msg \o ")" ELSE NoneVal

\* Variant of CredentialsUndefined: the secret is not looked at.
CredentialsUndefined_KeyOnly(key, secret) == ~Truthy(key)

\* lines 46 and 58: not self.api_key or not self.api_secret
CredentialsUndefined(key, secret) == ~Truthy(key) \/ ~Truthy(secret)

\* line 62: endpoint.scheme != 'https'
NonHttps(endpoint) == UrlScheme(endpoint) # "https"

(***************************************************************************)
(* _extract_id_from_batch_response(r, name), lines 110-123.  The plural    *)
(* name is given with the name (names = name + 's').                       *)
(***************************************************************************)
\* bool(v) of a JSON value.
JTruthy(v) ==
    CASE v.t = "null" -> FALSE
      [] v.t = "bool" -> v.b
      [] v.t = "num" -> v.n # 0
      [] v.t = "str" -> v.s # ""
      [] v.t = "arr" -> Len(v.a) > 0
      [] v.t = "obj" -> DOMAIN v.m # {}

\* s[0] of the non-empty strings that occur in documents.
FirstChar(s) ==
    CASE s = "42" -> "4" [] s = "bad" -> "b" [] s = "ctx" -> "c" [] OTHER -> s

\* int(id)
IntOf(id) ==
    CASE id.t = "num" -> Return(id.n)
      [] id.t = "bool" -> Return(IF id.b THEN 1 ELSE 0)
      [] id.t = "str" ->
           IF IsIntText(id.s) THEN Return(IntOfText(id.s))
           ELSE Raise(OtherExc("ValueError", "invalid literal for int()"))
      [] OTHER -> Raise(OtherExc("TypeError", "int() argument"))

\* v[0]
FirstOf(v) ==
    CASE v.t = "arr" ->
           IF Len(v.a) > 0 THEN Return(v.a[1])
           ELSE Raise(OtherExc("IndexError", "list index out of range"))
      [] v.t = "str" ->
           IF v.s # "" THEN Return(JStr(FirstChar(v.s)))
           ELSE Raise(OtherExc("IndexError", "string index out of range"))
      [] v.t = "obj" -> Raise(OtherExc("KeyError", "0"))
      [] OTHER -> Raise(OtherExc("TypeError", "not subscriptable"))

\* line 118: raise GeneralException(r['errors'][0]['desc'])
FirstErrorDesc(errors) ==
    LET e == FirstOf(errors) IN
    IF e.kind = "raise" THEN e
    ELSE IF e.value.t = "obj"
         THEN IF "desc" \in DOMAIN e.value.m
              THEN Raise(GeneralException1(e.value.m["desc"]))
              ELSE Raise(OtherExc("KeyError", "desc"))
    ELSE Raise(OtherExc("TypeError", "indices must be integers"))

\* Variant of ExtractId: the errors are looked at only when the plural list
\* holds no id.
ExtractId_ErrorsLast(r, name, names) ==
    IF r.t # "obj"
    THEN Raise(OtherExc("TypeError", "not a dict"))
    ELSE IF names \in DOMAIN r.m
         THEN IF FirstOf(r.m[names]).kind = "return"
              THEN IntOf(FirstOf(r.m[names]).value)
              ELSE IF "errors" \in DOMAIN r.m /\ JTruthy(r.m["errors"])
              THEN FirstErrorDesc(r.m["errors"])
              ELSE FirstOf(r.m[names])
    ELSE IF name \in DOMAIN r.m THEN IntOf(r.m[name])
    ELSE Raise(OtherExc("KeyError", name))

\* lines 110-123
ExtractId(r, name, names) ==
    IF r.t # "obj"
    THEN Raise(OtherExc("TypeError", "not a dict"))
    ELSE IF names \in DOMAIN r.m
         THEN IF "errors" \in DOMAIN r.m /\ JTruthy(r.m["errors"])
              THEN FirstErrorDesc(r.m["errors"])
              ELSE LET id == FirstOf(r.m[names]) IN
                   IF id.kind = "raise" THEN id ELSE IntOf(id.value)
    ELSE IF name \in DOMAIN r.m THEN IntOf(r.m[name])
    ELSE Raise(OtherExc("KeyError", name))

(***************************************************************************)
(* Python str values whose characters matter: a sequence of one-character  *)
(* strings, tagged "chars".  None is JNull, an int is JNum, a bool JBool.  *)
(***************************************************************************)
PyS(chars) == [t |-> "chars", c |-> chars]

Digits == {"0", "1", "2", "3", "4", "5", "6", "7", "8", "9"}
HexLetters == {"a", "b", "c", "d", "e", "f", "A", "B", "C", "D", "E", "F"}
\* \d, \w and the whitespace int() strips, for a byte string without flags.
WordChars ==
    { "a", "b", "c", "d", "e", "f", "g", "h", "i", "j", "k", "l", "m", "n", "o", "p", "q",
      "r", "s", "t", "u", "v", "w", "x", "y", "z",
      "A", "B", "C", "D", "E", "F", "G", "H", "I", "J", "K", "L", "M", "N", "O", "P", "Q",
      "R", "S", "T", "U", "V", "W", "X", "Y", "Z" }
        \cup Digits \cup {"_"}
Whitespace == {" ", "\n", "\t"}

DigitOrder == <<"0", "1", "2", "3", "4", "5", "6", "7", "8", "9">>
DigitValue(ch) == (CHOOSE i \in 1..10 : DigitOrder[i] = ch) - 1

\* str(n) of an int n.
RECURSIVE NatChars(_)
NatChars(n) == IF n < 10 THEN <<DigitOrder[n + 1]>> ELSE NatChars(n \div 10) \o <<DigitOrder[(n % 10) + 1]>>
IntChars(n) == IF n < 0 THEN <<"-">> \o NatChars(0 - n) ELSE NatChars(n)

\* The value of a run of decimal digits.
RECURSIVE DigitsValue(_)
DigitsValue(chars) ==
    IF chars = <<>> THEN 0
    ELSE 10 * DigitsValue(SubSeq(chars, 1, Len(chars) - 1)) + DigitValue(chars[Len(chars)])

\* str(x)
StrOf(x) ==
    CASE x.t = "chars" -> x.c
      [] x.t = "num" -> IntChars(x.n)
      [] x.t = "null" -> <<"N", "o", "n", "e">>
      [] x.t = "bool" -> IF x.b THEN <<"T", "r", "u", "e">> ELSE <<"F", "a", "l", "s", "e">>

\* bool(x)
PyTruthy(x) ==
    CASE x.t = "chars" -> Len(x.c) > 0
      [] x.t = "num" -> x.n # 0
      [] x.t = "null" -> FALSE
      [] x.t = "bool" -> x.b

\* s.strip() for int(): leading and trailing whitespace removed.
RECURSIVE LStrip(_)
LStrip(s) == IF s # <<>> /\ Head(s) \in Whitespace THEN LStrip(Tail(s)) ELSE s
RECURSIVE RStrip(_)
RStrip(s) ==
    IF s # <<>> /\ s[Len(s)] \in Whitespace THEN RStrip(SubSeq(s, 1, Len(s) - 1)) ELSE s

\* int(x): an int as it is, a bool as 0 or 1, a str when it is an optionally
\* signed run of decimal digits with whitespace around it (ValueError
\* otherwise); None is a TypeError.
IntOfChars(s) ==
    LET body == RStrip(LStrip(s))
        signed == body # <<>> /\ Head(body) \in {"-", "+"}
        digits == IF signed THEN Tail(body) ELSE body
    IN  IF digits # <<>> /\ \A i \in 1..Len(digits) : digits[i] \in Digits
        THEN Return(IF signed /\ Head(body) = "-" THEN 0 - DigitsValue(digits)
                    ELSE DigitsValue(digits))
        ELSE Raise(OtherExc("ValueError", "invalid literal for int() with base 10"))

PyInt(x) ==
    CASE x.t = "num" -> Return(x.n)
      [] x.t = "bool" -> Return(IF x.b THEN 1 ELSE 0)
      [] x.t = "chars" -> IntOfChars(x.c)
      [] OTHER -> Raise(OtherExc("TypeError", "int() argument must be a string or a number"))

\* re.match('^[...]*$', s): every character is of the class; `$` also matches
\* just before a newline that ends the string.
MatchesClassToEnd(s, class) ==
    \/ \A i \in 1..Len(s) : s[i] \in class
    \/ /\ Len(s) >= 1
       /\ s[Len(s)] = "\n"
       /\ \A i \in 1..(Len(s) - 1) : s[i] \in class

(***************************************************************************)
(* util.safeformat(format_string, *args), util.py lines 133-207.           *)
(***************************************************************************)
\* lines 158-162
HexConv(x) ==
    IF MatchesClassToEnd(StrOf(x), HexLetters \cup Digits) THEN Return(StrOf(x))
    ELSE Raise(OtherExc("ValueError", "Non-hex digits in hex number."))

\* lines 164-168
IdentifierConv(x) ==
    IF MatchesClassToEnd(StrOf(x), WordChars \cup {"-"}) THEN Return(StrOf(x))
    ELSE Raise(OtherExc("ValueError", "Non-identifier characters in string."))

\* lines 170-175: the names of the converters
ConverterNames == {<<"i", "n", "t">>, <<"h", "e", "x">>, <<"s", "t", "r">>, <<"i", "d", "e", "n", "t">>}

Convert(typ, x) ==
    CASE typ = <<"i", "n", "t">> ->   \* int, and the str(val) of line 205
           LET v == PyInt(x) IN IF v.kind = "return" THEN Return(IntChars(v.value)) ELSE v
      [] typ = <<"h", "e", "x">> -> HexConv(x)
      [] typ = <<"s", "t", "r">> -> Return(StrOf(x))
      [] typ = <<"i", "d", "e", "n", "t">> -> IdentifierConv(x)

\* The length of the longest run of characters of the class from index i.
RECURSIVE RunLen(_, _, _)
RunLen(s, i, class) == IF i <= Len(s) /\ s[i] \in class THEN 1 + RunLen(s, i + 1, class) ELSE 0

\* line 207: the pattern "{(?:(?P<idx>\d+))?:(?P<typ>\w+)}" tried at index i.
\* [ok, idx (the digits, <<>> when absent), typ, next].
MatchPlaceholder(s, i) ==
    LET nd == RunLen(s, i + 1, Digits)
        colon == i + 1 + nd
        nw == RunLen(s, colon + 1, WordChars)
        close == colon + 1 + nw
    IN  IF /\ i <= Len(s) /\ s[i] = "{"
           /\ colon <= Len(s) /\ s[colon] = ":"
           /\ nw >= 1
           /\ close <= Len(s) /\ s[close] = "}"
        THEN [ok |-> TRUE, idx |-> SubSeq(s, i + 1, colon - 1),
              typ |-> SubSeq(s, colon + 1, close - 1), next |-> close + 1]
        ELSE [ok |-> FALSE, idx |-> <<>>, typ |-> <<>>, next |-> i]

\* Variant of PlaceholderIndex: the explicit index is ignored.
PlaceholderIndex_CounterOnly(idx, counter) == counter

\* The argument index a placeholder uses: the explicit one, or the counter.
PlaceholderIndex(idx, counter) == IF idx = <<>> THEN counter ELSE DigitsValue(idx)

\* Variant of Replace: the type is looked up before the argument.
Replace_TypeFirst(m, args, counter) ==
    LET idx == PlaceholderIndex(m.idx, counter) IN
    IF m.typ \notin ConverterNames
    THEN Raise(OtherExc("ConversionError", "Invalid converter/type"))
    ELSE IF idx + 1 > Len(args)
    THEN Raise(OtherExc("ConversionError", "Index out of bounds"))
    ELSE LET val == Convert(m.typ, args[idx + 1]) IN
         IF val.kind = "raise"
         THEN Raise(OtherExc("ConversionError", "Argument not of type"))
         ELSE val

\* lines 179-205: replace(match), with the arguments and the counter's value.
Replace(m, args, counter) ==
    LET idx == PlaceholderIndex(m.idx, counter) IN
    IF idx + 1 > Len(args)
    THEN Raise(OtherExc("ConversionError", "Index out of bounds"))
    ELSE IF m.typ \notin ConverterNames
    THEN Raise(OtherExc("ConversionError", "Invalid converter/type"))
    ELSE LET val == Convert(m.typ, args[idx + 1]) IN
         IF val.kind = "raise"
         THEN Raise(OtherExc("ConversionError", "Argument not of type"))
         ELSE val

\* line 207: re.sub over the format string from index i, with what was written
\* so far; the first failing placeholder raises and nothing is returned.
RECURSIVE SafeFormatFrom(_, _, _, _, _)
SafeFormatFrom(s, i, args, counter, acc) ==
    IF i > Len(s) THEN Return(acc)
    ELSE LET m == MatchPlaceholder(s, i) IN
         IF ~m.ok THEN SafeFormatFrom(s, i + 1, args, counter, Append(acc, s[i]))
         ELSE LET r == Replace(m, args, counter) IN
              IF r.kind = "raise" THEN r
              ELSE SafeFormatFrom(s, m.next, args,
                                  IF m.idx = <<>> THEN counter + 1 ELSE counter,
                                  acc \o r.value)

SafeFormat(format_string, args) == SafeFormatFrom(format_string, 1, args, 0, <<>>)

(***************************************************************************)
(* The inputs the model draws from.                                        *)
(***************************************************************************)
Callers == 1..NCallers

\* Values of the `data` field.
DataValues ==
    { JNull, JBool(FALSE), JNum(0), JNum(42), JStr("x"), JArr(<<>>), JArr(<<JNum(7)>>),
      JObj(EmptyMap),
      JObj([k \in {"oid"} |-> JStr("42")]),
      JObj([k \in {"oids", "errors"} |-> IF k = "oids" THEN JArr(<<JNum(42)>>) ELSE JArr(<<>>)]),
      JObj([k \in {"oids", "errors"} |->
              IF k = "oids" THEN JArr(<<>>)
              ELSE JArr(<<JObj([d \in {"desc"} |-> JStr("bad")])>>)]) }

Messages == {JStr("bad"), JNull}
Contexts == {JStr("ctx"), JStr("Error")}

\* Well-formed envelopes, malformed ones, and documents that are no object.
SuccessEnvelopes == {JObj([k \in {"data"} |-> v]) : v \in DataValues}
ErrorEnvelopes ==
    {JObj([k \in {"message", "context"} |-> IF k = "message" THEN m ELSE x]) :
        m \in Messages, x \in Contexts}
OtherDocuments ==
    { JObj(EmptyMap),
      JObj([k \in {"message"} |-> JStr("bad")]),
      JObj([k \in {"context"} |-> JStr("ctx")]),
      JObj([k \in {"data", "message", "context"} |->
              IF k = "data" THEN JNum(1) ELSE JStr("bad")]),
      JArr(<<JStr("data")>>), JStr("data"), JNum(1), JNull }

\* Bodies that are not one JSON document, or not ASCII.
BrokenBodies ==
    { <<>>,
      <<Tok("junk", "<html>")>>,
      <<P("{"), Tok("str", "data"), P(":")>>,
      <<P("{"), Tok("str", "data"), P(":"), Tok("num", "1"), P("}"), Tok("junk", "x")>>,
      <<P("{"), Tok("str", "message"), P(":"), Tok("str", "bad"), P(","),
        Tok("str", "context"), P(":"), Tok("str", "ctx")>>,
      <<P("{"), Tok("str", "data"), P(":"), TokU("str", "caf\\xc3\\xa9"), P("}")>> }

\* A document with a repeated member: the last one counts.
RepeatedBodies ==
    { <<P("{"), Tok("str", "data"), P(":"), Tok("num", "1"), P(","),
        Tok("str", "data"), P(":"), Tok("num", "7"), P("}")>> }

Bodies ==
    {Dumps(v) : v \in SuccessEnvelopes \cup ErrorEnvelopes \cup OtherDocuments}
        \cup BrokenBodies \cup RepeatedBodies

Statuses ==
    { 100, 199, OK, CREATED, NO_CONTENT, PARTIAL_CONTENT, 299, MULTIPLE_CHOICES,
      MOVED_PERMANENTLY, BAD_REQUEST, PAYMENT_REQUIRED, FORBIDDEN, NOT_FOUND, CONFLICT,
      GONE, INTERNAL_SERVER_ERROR, NOT_IMPLEMENTED }

Responses == [status : Statuses, body : Bodies]

\* The responses of the concurrent specification: one of each outcome.
FewResponses ==
    { [status |-> OK, body |-> Dumps(JObj([k \in {"data"} |-> JObj([d \in {"oid"} |-> JNum(42)])]))],
      [status |-> NOT_FOUND, body |-> Dumps(JObj([k \in {"message", "context"} |-> JStr("bad")]))],
      [status |-> INTERNAL_SERVER_ERROR, body |-> <<TokU("junk", "\\xff")>>] }

\* Errors of the socket layer: none is an httplib.HTTPException.
SocketErrors == {"socket.error", "socket.timeout"}

Verbs == {"get", "post", "put", "delete"}
Subpaths == {<<"id/users">>, <<"a", " ", "b">>}
Endpoints ==
    { URL_ENDPOINT_SANDBOX,
      <<"HTTPS", ":", "/", "/", "api.vingd.com", ":", "443", "/", "broker">>,
      <<"http", ":", "/", "/", "api.vingd.com", "/", "broker", "/", "v1">>,
      <<"api.vingd.com", ":", "443">>,
      <<>> }

(***************************************************************************)
(* State.  The client object's fields, and per calling thread the position *)
(* in Vingd.request and its local variables.                               *)
(***************************************************************************)
VARIABLES
    api_key, api_secret, api_endpoint, usr_frontend,
    pc, call, conn, wire, resp, fail, result, opresult,
    nrequest, nconn, nhttp,
    opargs

fields == <<api_key, api_secret, api_endpoint, usr_frontend>>
locals == <<pc, call, conn, wire, resp, fail, result, opresult, nrequest, nconn, nhttp>>
vars == <<api_key, api_secret, api_endpoint, usr_frontend,
          pc, call, conn, wire, resp, fail, result, opresult, nrequest, nconn, nhttp,
          opargs>>

NoCall == [op |-> "none"]
NoConn == [state |-> "none"]
NoWire == [verb |-> "none"]
NoResp == [status |-> 0, body |-> <<>>]
\* opargs[c]: the arguments thread c called its operation with.
NoArgs == [none |-> TRUE]

\* No thread is inside a call.
NoCallInProgress ==
    /\ pc = [c \in Callers |-> "idle"]
    /\ call = [c \in Callers |-> NoCall]
    /\ conn = [c \in Callers |-> NoConn]
    /\ wire = [c \in Callers |-> NoWire]
    /\ resp = [c \in Callers |-> NoResp]
    /\ fail = [c \in Callers |-> "none"]
    /\ result = [c \in Callers |-> Pending]
    /\ opresult = [c \in Callers |-> Pending]
    /\ nrequest = [c \in Callers |-> 0]
    /\ nconn = [c \in Callers |-> 0]
    /\ nhttp = [c \in Callers |-> 0]
    /\ opargs = [c \in Callers |-> NoArgs]

(***************************************************************************)
(* Vingd.__init__, lines 41-49.  Init is every state a constructor call    *)
(* that does not raise leaves.                                             *)
(***************************************************************************)
CtorRaises(key, secret, username, password) ==
    CredentialsUndefined(PyOr(key, username), PyOr(secret, Hash(password)))

Init ==
    /\ \E key \in {NoneVal, "k"}, username \in {NoneVal, "u"},
          secret \in {NoneVal, "s"}, password \in {NoneVal, "", "pw"},
          endpoint \in {<<>>, URL_ENDPOINT_SANDBOX},
          frontend \in {NoneVal, URL_FRONTEND_SANDBOX} :
        /\ ~CtorRaises(key, secret, username, password)
        /\ api_key = PyOr(key, username)
        /\ api_secret = PyOr(secret, Hash(password))
        /\ api_endpoint = (IF endpoint # <<>> THEN endpoint ELSE URL_ENDPOINT)
        /\ usr_frontend = (IF Truthy(frontend) THEN frontend ELSE URL_FRONTEND)
    /\ NoCallInProgress

\* One constructor call: Vingd(key="k", secret="s").
InitConc ==
    /\ ~CtorRaises("k", "s", NoneVal, NoneVal)
    /\ api_key = PyOr("k", NoneVal)
    /\ api_secret = PyOr("s", Hash(NoneVal))
    /\ api_endpoint = URL_ENDPOINT
    /\ usr_frontend = URL_FRONTEND
    /\ NoCallInProgress


(***************************************************************************)
(* Assignments to the client's public attributes after construction.       *)
(***************************************************************************)
SetField(keys, secrets, endpoints) ==
    /\ \/ \E v \in keys : api_key' = v /\ UNCHANGED <<api_secret, api_endpoint>>
       \/ \E v \in secrets : api_secret' = v /\ UNCHANGED <<api_key, api_endpoint>>
       \/ \E v \in endpoints : api_endpoint' = v /\ UNCHANGED <<api_key, api_secret>>
    /\ UNCHANGED <<usr_frontend, locals, opargs>>

(***************************************************************************)
(* Vingd.request(verb, subpath, data), lines 51-108, and the domain        *)
(* operations that call it.                                                *)
(***************************************************************************)
\* What the operation does with what request returned (or raised).
PostOp(op, r) ==
    IF op = "create_object" /\ r.kind = "return"
    THEN ExtractId(r.value, "oid", "oids")
    ELSE r

\* Variant of FieldsAfterRequest: the parsed endpoint is stored back on self.
FieldsAfterRequest_Stores(key, secret, endpoint, frontend) ==
    <<key, secret, UrlRest(endpoint), frontend>>

\* request assigns no attribute of self: the fields after lines 58-69.
FieldsAfterRequest(key, secret, endpoint, frontend) == <<key, secret, endpoint, frontend>>

\* Variant of PcAfterRaise: a failed exchange is tried again.
PcAfterRaise_Retry(why) == IF why = "HTTPException" THEN "conn_request" ELSE "done"

\* lines 77-78 (and every other raise): the exception leaves request; nothing
\* is tried again.
PcAfterRaise(why) == "done"

\* request ends, by a return or a raise, and so does the operation.
Ends(c, op, why, r) ==
    /\ pc' = [pc EXCEPT ![c] = IF r.kind = "raise" THEN PcAfterRaise(why) ELSE "done"]
    /\ fail' = [fail EXCEPT ![c] = why]
    /\ result' = [result EXCEPT ![c] = r]
    /\ opresult' = [opresult EXCEPT ![c] = PostOp(op, r)]

\* lines 58-71: the checks, the path, the header, the connection object.
RequestBegin(c, op, verb, subpath, data) ==
    /\ pc[c] = "idle"
    /\ nrequest' = [nrequest EXCEPT ![c] = @ + 1]
    /\ LET after == FieldsAfterRequest(api_key, api_secret, api_endpoint, usr_frontend) IN
          /\ api_key' = after[1]
          /\ api_secret' = after[2]
          /\ api_endpoint' = after[3]
          /\ usr_frontend' = after[4]
    /\ UNCHANGED <<wire, resp, nhttp>>
    /\ IF CredentialsUndefined(api_key, api_secret)
       THEN /\ Ends(c, op, "credentials",
                    Raise(OtherExc("Exception", "Vingd authentication credentials undefined.")))
            /\ call' = [call EXCEPT ![c] =
                          [op |-> op, verb |-> verb, subpath |-> subpath, data |-> data,
                           path |-> <<>>, auth |-> ""]]
            /\ UNCHANGED <<conn, nconn>>
       ELSE IF NonHttps(api_endpoint)
       THEN /\ Ends(c, op, "scheme",
                    Raise(OtherExc("Exception", "Invalid Vingd endpoint URL (non-https).")))
            /\ call' = [call EXCEPT ![c] =
                          [op |-> op, verb |-> verb, subpath |-> subpath, data |-> data,
                           path |-> <<>>, auth |-> ""]]
            /\ UNCHANGED <<conn, nconn>>
       ELSE /\ call' = [call EXCEPT ![c] =
                          [op |-> op, verb |-> verb, subpath |-> subpath, data |-> data,
                           path |-> UrlJoin(UrlPath(api_endpoint) \o <<"/">>, subpath),
                           auth |-> AuthHeader(api_key, api_secret)]]
            /\ conn' = [conn EXCEPT ![c] =
                          [state |-> "created",
                           host |-> HostOf(UrlNetloc(api_endpoint)), port |-> 443]]
            /\ nconn' = [nconn EXCEPT ![c] = @ + 1]
            /\ pc' = [pc EXCEPT ![c] = "conn_request"]
            /\ UNCHANGED <<fail, result, opresult>>

\* A direct call of request.
Request(c) ==
    \E verb \in Verbs, subpath \in Subpaths :
        /\ RequestBegin(c, "request", verb, subpath, <<>>)
        /\ opargs' = [opargs EXCEPT ![c] = [verb |-> verb, subpath |-> subpath]]

\* create_object(name, url), lines 143-149
CreateObject(c) ==
    \E name \in {"My test object"}, url \in {"http://localhost:666/"} :
        /\ RequestBegin(c, "create_object", "post", <<"registry/objects/">>,
            Dumps(JObj([k \in {"description"} |->
                JObj([d \in {"name", "url"} |-> IF d = "name" THEN JStr(name) ELSE JStr(url)])])))
        /\ opargs' = [opargs EXCEPT ![c] = [name |-> name, url |-> url]]

\* get_user_profile(), line 480
GetUserProfile(c) ==
    /\ RequestBegin(c, "get_user_profile", "get", <<"id/users">>, <<>>)
    /\ opargs' = [opargs EXCEPT ![c] = NoArgs]

\* get_order(orderid), line 363, through get_orders(orderid=orderid), lines 335-342
GetOrder(c) ==
    \E orderid \in {0, 7} :
        /\ RequestBegin(c, "get_order", "get",
              <<"", "orders/", "", IF orderid # 0 THEN ToString(orderid) ELSE "">>, <<>>)
        /\ opargs' = [opargs EXCEPT ![c] = [orderid |-> orderid]]

\* line 72: conn.request(verb.upper(), quote(path), data, headers) connects
\* and sends.  The connection may fail to be made, or fail once made; neither
\* error is an httplib.HTTPException.
ConnRequest(c, errors) ==
    /\ pc[c] = "conn_request"
    /\ wire' = [wire EXCEPT ![c] =
                  [verb |-> Upper(call[c].verb), path |-> Quote(call[c].path),
                   data |-> call[c].data, Authorization |-> call[c].auth]]
    /\ nhttp' = [nhttp EXCEPT ![c] = @ + 1]
    /\ UNCHANGED <<fields, call, resp, nrequest, nconn, opargs>>
    /\ \/ /\ conn' = [conn EXCEPT ![c].state = "open"]
          /\ pc' = [pc EXCEPT ![c] = "getresponse"]
          /\ UNCHANGED <<fail, result, opresult>>
       \/ \E e \in errors :
             /\ UNCHANGED conn
             /\ Ends(c, call[c].op, e, Raise(OtherExc(e, "connect failed")))
       \/ \E e \in errors :
             /\ conn' = [conn EXCEPT ![c].state = "open"]
             /\ Ends(c, call[c].op, e, Raise(OtherExc(e, "send failed")))

\* lines 73-78 and 80-108: the response is read, decoded, the connection
\* closed and the response classified; or reading fails, with an
\* httplib.HTTPException (caught, line 77) or with another error (not caught).
ConnGetResponse(c, pool, errors) ==
    /\ pc[c] = "getresponse"
    /\ UNCHANGED <<fields, call, wire, nrequest, nconn, nhttp, opargs>>
    /\ \/ \E r \in pool :
             /\ DecodesAscii(r.body)
             /\ resp' = [resp EXCEPT ![c] = r]
             /\ conn' = [conn EXCEPT ![c].state = "closed"]
             /\ Ends(c, call[c].op, "none", Classify(r.status, r.body))
       \/ \E r \in pool :
             /\ ~DecodesAscii(r.body)
             /\ resp' = [resp EXCEPT ![c] = r]
             /\ UNCHANGED conn
             /\ Ends(c, call[c].op, "UnicodeDecodeError",
                     Raise(OtherExc("UnicodeDecodeError", "'ascii' codec can't decode")))
       \/ /\ UNCHANGED <<resp, conn>>
          /\ Ends(c, call[c].op, "HTTPException",
                  Raise(InternalError1(
                      JStr("HTTP request failed! (Network error? Installation error?)"))))
       \/ \E e \in errors :
             /\ UNCHANGED <<resp, conn>>
             /\ Ends(c, call[c].op, e, Raise(OtherExc(e, "recv failed")))

\* The operation has returned or raised; the thread goes on.
ReturnToCaller(c) ==
    /\ pc[c] = "done"
    /\ pc' = [pc EXCEPT ![c] = "idle"]
    /\ call' = [call EXCEPT ![c] = NoCall]
    /\ conn' = [conn EXCEPT ![c] = NoConn]
    /\ wire' = [wire EXCEPT ![c] = NoWire]
    /\ resp' = [resp EXCEPT ![c] = NoResp]
    /\ fail' = [fail EXCEPT ![c] = "none"]
    /\ result' = [result EXCEPT ![c] = Pending]
    /\ opresult' = [opresult EXCEPT ![c] = Pending]
    /\ nrequest' = [nrequest EXCEPT ![c] = 0]
    /\ nconn' = [nconn EXCEPT ![c] = 0]
    /\ nhttp' = [nhttp EXCEPT ![c] = 0]
    /\ opargs' = [opargs EXCEPT ![c] = NoArgs]
    /\ UNCHANGED fields

(***************************************************************************)
(* Specifications.  Spec: one thread uses the client, and sees every       *)
(* response.  SpecConc: NCallers threads share the client, and the fields  *)
(* may be assigned while calls are in flight.                              *)
(***************************************************************************)
MainThread == CHOOSE c \in Callers : \A d \in Callers : c <= d

Next ==
    \/ pc[MainThread] = "idle" /\ SetField({NoneVal, "", "k"}, {"", "s"}, Endpoints)
    \/ Request(MainThread)
    \/ CreateObject(MainThread)
    \/ GetUserProfile(MainThread)
    \/ GetOrder(MainThread)
    \/ ConnRequest(MainThread, SocketErrors)
    \/ ConnGetResponse(MainThread, Responses, SocketErrors)
    \/ ReturnToCaller(MainThread)

Spec == Init /\ [][Next]_vars

NextConc ==
    \/ SetField({"", "k"}, {"", "s"}, {URL_ENDPOINT, <<"http", ":", "/", "/", "api.vingd.com">>})
    \/ \E c \in Callers :
          \/ CreateObject(c)
          \/ GetUserProfile(c)
          \/ ConnRequest(c, {"socket.error"})
          \/ ConnGetResponse(c, FewResponses, {"socket.error"})
          \/ ReturnToCaller(c)

SpecConc == InitConc /\ [][NextConc]_vars

(***************************************************************************)
(* Calls of the helpers: util.safeformat, util.parse_duration and          *)
(* Vingd._extract_id_from_batch_response take their arguments and return   *)
(* or raise at once; they read and write nothing of the client.            *)
(***************************************************************************)
Applied(c, op, a, r) ==
    /\ pc[c] = "idle"
    /\ pc' = [pc EXCEPT ![c] = "done"]
    /\ call' = [call EXCEPT ![c] = [op |-> op]]
    /\ opargs' = [opargs EXCEPT ![c] = a]
    /\ result' = [result EXCEPT ![c] = r]
    /\ opresult' = [opresult EXCEPT ![c] = r]
    /\ UNCHANGED <<fields, conn, wire, resp, fail, nrequest, nconn, nhttp>>

\* The most arguments a call of safeformat is given.
MaxArgs == 2

\* Format strings: the docstring's (lines 141-153) and others with implicit
\* and explicit indices, unknown types, and text that is no placeholder.
\* Arguments: ints, None, and strings inside and outside the type classes.
SafeFormatCall(c) ==
    LET FormatStrings ==
            { <<"{", ":", "i", "n", "t", "}">>,
              <<"{", ":", "h", "e", "x", "}">>,
              <<"{", ":", "i", "d", "e", "n", "t", "}">>,
              <<"{", ":", "s", "t", "r", "}">>,
              <<"{", "1", ":", "s", "t", "r", "}", " ", "{", "0", ":", "i", "n", "t", "}">>,
              <<"{", ":", "h", "e", "x", "}", ".", " ", "i", "t", "e", "m", ":", " ", "{", "0", ":", "s", "t", "r", "}">>,
              <<"{", "0", ":", "i", "n", "t", "}", "{", ":", "s", "t", "r", "}">>,
              <<"{", ":", "i", "n", "t", "}", "/", "{", ":", "i", "d", "e", "n", "t", "}">>,
              <<"{", ":", "o", "c", "t", "}">>,
              <<"{", "2", ":", "b", "a", "d", "}">>,
              <<"{", ":", "s", "t", "r", "}", "-", "{", ":", "h", "e", "x", "}">>,
              <<"a", "{", ":", "}", "b", "{", "x", ":", "i", "n", "t", "}">> }
        FormatValues ==
            { JNum(13), JNum(7), JNull,
              PyS(<<"a", "b", "2", "e">>),
              PyS(<<"x">>),
              PyS(<<"z", "z">>),
              PyS(<<"a", "b", "\n">>),
              PyS(<<"a", "/", "b">>),
              PyS(<<>>),
              PyS(<<"-", "5">>),
              PyS(<<" ", "4", "2", "\n">>),
              PyS(<<"g", "_", "1", "-">>) }
        FormatArgs == UNION {[1..n -> FormatValues] : n \in 0..MaxArgs}
    IN
    \E format_string \in FormatStrings, args \in FormatArgs :
        Applied(c, "safeformat", [format_string |-> format_string, args |-> args],
                SafeFormat(format_string, args))

(***************************************************************************)
(* util.parse_duration(string), util.py lines 48-125.                      *)
(***************************************************************************)
UpperChar(ch) ==
    LET LowerCase ==
            <<"a", "b", "c", "d", "e", "f", "g", "h", "i", "j", "k", "l", "m", "n", "o", "p", "q",
              "r", "s", "t", "u", "v", "w", "x", "y", "z">>
        UpperCase ==
            <<"A", "B", "C", "D", "E", "F", "G", "H", "I", "J", "K", "L", "M", "N", "O", "P", "Q",
              "R", "S", "T", "U", "V", "W", "X", "Y", "Z">>
    IN
    IF \E i \in 1..26 : LowerCase[i] = ch
    THEN UpperCase[CHOOSE i \in 1..26 : LowerCase[i] = ch]
    ELSE ch

\* line 95: string.replace(' ', '').upper()
RECURSIVE Normalise(_)
Normalise(s) ==
    IF s = <<>> THEN <<>>
    ELSE IF Head(s) = " " THEN Normalise(Tail(s))
    ELSE <<UpperChar(Head(s))>> \o Normalise(Tail(s))

\* `$`: the end of the string, or just before a newline that ends it.
AtEnd(s, i) == i = Len(s) + 1 \/ (i = Len(s) /\ s[i] = "\n")

\* A group that did not take part in the match.
NoGroup(i) == [ok |-> FALSE, digits |-> <<>>, next |-> i]

\* (?:(?P<name>\d+)X)? at index i: the digits and the unit letter, or nothing.
Component(s, i, unit) ==
    LET n == RunLen(s, i, Digits) IN
    IF n >= 1 /\ i + n <= Len(s) /\ s[i + n] = unit
    THEN [ok |-> TRUE, digits |-> SubSeq(s, i, i + n - 1), next |-> i + n + 1]
    ELSE NoGroup(i)

\* (?P<name>\d{n}) at index i.
FixedDigits(s, i, n) ==
    IF i + n - 1 <= Len(s) /\ \A j \in i..(i + n - 1) : s[j] \in Digits
    THEN [ok |-> TRUE, digits |-> SubSeq(s, i, i + n - 1), next |-> i + n]
    ELSE NoGroup(i)

\* A literal character at index i.
Literal(s, i, ch) == i <= Len(s) /\ s[i] = ch

\* Variant of TimeGroup: the time components are read without a T.
TimeGroup_NoT(s, i) ==
    LET h == Component(s, i, "H")
        m == Component(s, h.next, "M")
        sec == Component(s, m.next, "S")
    IN  [hours |-> h, minutes |-> m, seconds |-> sec, next |-> sec.next]

\* lines 100-101: (?:T(?:(?P<hours>\d+)H)?(?:(?P<minutes>\d+)M)?(?:(?P<seconds>\d+)S)?)?
\* at index i.  The group is taken when a T is there and the match can end
\* after it; it is skipped otherwise.
TimeGroup(s, i) ==
    LET h == Component(s, i + 1, "H")
        m == Component(s, h.next, "M")
        sec == Component(s, m.next, "S")
    IN  IF Literal(s, i, "T") /\ AtEnd(s, sec.next)
        THEN [hours |-> h, minutes |-> m, seconds |-> sec, next |-> sec.next]
        ELSE [hours |-> NoGroup(i), minutes |-> NoGroup(i), seconds |-> NoGroup(i), next |-> i]

\* lines 98-102: the first pattern, PnYnMnDTnHnMnS.
Pattern1(s) ==
    LET y == Component(s, 2, "Y")
        m == Component(s, y.next, "M")
        d == Component(s, m.next, "D")
        t == TimeGroup(s, d.next)
    IN  [ok |-> Literal(s, 1, "P") /\ AtEnd(s, t.next),
         groups |-> [years |-> y, months |-> m, days |-> d,
                     hours |-> t.hours, minutes |-> t.minutes, seconds |-> t.seconds]]

\* lines 108-111: the second pattern, PnW.
Pattern2(s) ==
    LET w == Component(s, 2, "W") IN
    [ok |-> Literal(s, 1, "P") /\ w.ok /\ AtEnd(s, w.next),
     groups |-> [weeks |-> w]]

\* lines 117-120: the third pattern, PYYYYMMDDThhmmss or PYYYY-MM-DDThh:mm:ss.
\* Group 2 is the optional "-" after the year; (?(2)-) and (?(2):) require
\* the separator when it matched and nothing otherwise.
Pattern3(s) ==
    LET y == FixedDigits(s, 2, 4)
        ext == y.ok /\ Literal(s, y.next, "-")
        sep == IF ext THEN 1 ELSE 0
        mo == FixedDigits(s, y.next + sep, 2)
        d == FixedDigits(s, mo.next + sep, 2)
        h == FixedDigits(s, d.next + 1, 2)
        mi == FixedDigits(s, h.next + sep, 2)
        sec == FixedDigits(s, mi.next + sep, 2)
    IN  [ok |-> /\ Literal(s, 1, "P")
                /\ y.ok /\ mo.ok
                /\ (ext => Literal(s, mo.next, "-"))
                /\ d.ok
                /\ Literal(s, d.next, "T")
                /\ h.ok
                /\ (ext => Literal(s, h.next, ":"))
                /\ mi.ok
                /\ (ext => Literal(s, mi.next, ":"))
                /\ sec.ok
                /\ AtEnd(s, sec.next),
         groups |-> [years |-> y, months |-> mo, days |-> d,
                     hours |-> h, minutes |-> mi, seconds |-> sec]]

\* int(v) of a group's value: the digits, or the default 0.
GroupInt(g) == IF g.ok THEN IntOfChars(g.digits) ELSE Return(0)

\* Variant of GroupDict: only the groups that took part in the match.
GroupDict_MatchedOnly(groups) ==
    Return([k \in {g \in DOMAIN groups : groups[g].ok} |-> GroupInt(groups[k]).value])

\* lines 104-105 (113-114, 122-123): d = match.groupdict(0);
\* dict(zip(d.keys(), map(int, d.values()))).  Every named group is a key.
GroupDict(groups) ==
    IF \E k \in DOMAIN groups : GroupInt(groups[k]).kind = "raise"
    THEN GroupInt(groups[CHOOSE k \in DOMAIN groups : GroupInt(groups[k]).kind = "raise"])
    ELSE Return([k \in DOMAIN groups |-> GroupInt(groups[k]).value])

\* Variant of NoMatch: a string no pattern matches is an error.
NoMatch_Raises(string) == Raise(OtherExc("ValueError", "invalid duration"))

\* line 125
NoMatch(string) == Return(EmptyMap)

ParseDuration(string) ==
    LET s == Normalise(string) IN
    IF Pattern1(s).ok THEN GroupDict(Pattern1(s).groups)
    ELSE IF Pattern2(s).ok THEN GroupDict(Pattern2(s).groups)
    ELSE IF Pattern3(s).ok THEN GroupDict(Pattern3(s).groups)
    ELSE NoMatch(string)

\* Strings of the first format with every subset of its parts, with and
\* without the T, and strings of the other formats and of none.
ParseDurationCall(c) ==
    LET DurationStrings ==
            { <<"P">> \o y \o m \o d \o t \o h \o mi \o sec :
                y \in {<<>>, <<"1", "Y">>}, m \in {<<>>, <<"2", "M">>}, d \in {<<>>, <<"3", "D">>},
                t \in {<<>>, <<"T">>},
                h \in {<<>>, <<"4", "H">>}, mi \in {<<>>, <<"5", "M">>}, sec \in {<<>>, <<"6", "S">>} }
            \cup
            { <<>>,
              <<"g", "a", "r", "b", "a", "g", "e">>,
              <<"P", "2", "W">>,
              <<"P", "1", "2", "w">>,
              <<"P", "2", "W", "\n">>,
              <<"P", " ", "1", "y", " ", "1", "m", " ", "T", " ", "2", "m", " ", "1", "s">>,
              <<"P", "1", "m">>,
              <<"P", "1", "Y", "2", "W">>,
              <<"1", "Y", "2", "M">>,
              <<"T", "1", "H">>,
              <<"P", "0", "0", "7", "D">>,
              <<"P", "1", "2", "Y">>,
              <<"P", "0", "0", "0", "1", "0", "2", "0", "3", "T", "0", "3", "0", "2", "0", "1">>,
              <<"P", " ", "0", "0", "0", "1", "-", "0", "2", "-", "0", "3", " ", "T", " ", "0", "3", ":", "0", "2", ":", "0", "1">>,
              <<"P", "0", "0", "0", "1", "-", "0", "2", "0", "3", "T", "0", "3", ":", "0", "2", ":", "0", "1">>,
              <<"P", "0", "0", "0", "1", "-", "0", "2", "-", "0", "3", "T", "0", "3", "0", "2", "0", "1">>,
              <<"0", "0", "0", "1", "0", "2", "0", "3", "T", "0", "3", "0", "2", "0", "1">>,
              <<"P", "1", "Y", "\n">>,
              <<"P", "1", ".", "5", "Y">>,
              <<"P", "-", "1", "Y">>,
              <<"P", "T", "1", "M", "1", "H">>,
              <<"P", "1", "D", "1", "Y">>,
              <<"P", "1", "Y", "T", "\n">>,
              <<"P", "1", "D", "T">>,
              <<"P", "1", "H">>,
              <<"P", "T", "5", "M">>,
              <<"P", "0", "0", "0", "1", "-", "0", "2", "-", "0", "3", "T", "0", "3", ":", "0", "2", ":", "0", "1">> }
    IN
    \E string \in DurationStrings :
        Applied(c, "parse_duration", [string |-> string], ParseDuration(string))

\* Responses of the two shapes: with and without the plural list, the errors
\* and the single id; "absent" leaves the key out.
BatchResponse(plural, errors, single) ==
    LET given == [oids |-> plural, errors |-> errors, oid |-> single] IN
    JObj([k \in {x \in DOMAIN given : given[x] # [t |-> "absent"]} |-> given[k]])

ExtractIdCall(c) ==
    LET PluralLists ==
            { [t |-> "absent"], JArr(<<>>), JArr(<<JNum(42)>>), JArr(<<JNum(7), JNum(42)>>),
              JArr(<<JStr("42")>>), JArr(<<JStr("bad")>>), JArr(<<JNull>>), JNull }
        ErrorLists ==
            { [t |-> "absent"], JArr(<<>>), JNull,
              JArr(<<JObj([k \in {"desc"} |-> JStr("bad")])>>),
              JArr(<<JObj([k \in {"desc"} |-> JStr("ctx")]), JObj([k \in {"desc"} |-> JStr("bad")])>>),
              JArr(<<JObj(EmptyMap)>>) }
        SingleIds == { [t |-> "absent"], JNum(42), JStr("42"), JStr("bad"), JNull }
    IN
    \E plural \in PluralLists, errors \in ErrorLists, single \in SingleIds :
        Applied(c, "_extract_id_from_batch_response",
                [r |-> BatchResponse(plural, errors, single), name |-> "oid"],
                ExtractId(BatchResponse(plural, errors, single), "oid", "oid" \o "s"))

(***************************************************************************)
(* SpecUtil: one thread calls the helpers with every input of the sets     *)
(* above.                                                                  *)
(***************************************************************************)
NextUtil ==
    \/ SafeFormatCall(MainThread)
    \/ ParseDurationCall(MainThread)
    \/ ExtractIdCall(MainThread)
    \/ ReturnToCaller(MainThread)

SpecUtil == InitConc /\ [][NextUtil]_vars

(***************************************************************************)
(* The operations that build their resource from filters: get_vouchers     *)
(* (lines 656-716), get_vouchers_history (718-797) and verify_purchase     *)
(* (151-203).  A resource is a sequence of pieces; a fragment is its       *)
(* literal prefix and then the characters of the value.                    *)
(***************************************************************************)
\* one formatted value after another: the first that raises, raises.
Cat(r1, r2) ==
    IF r1.kind = "raise" THEN r1
    ELSE IF r2.kind = "raise" THEN r2
    ELSE Return(r1.value \o r2.value)

\* '%d' % x: a number is required.
FormatD(x) ==
    CASE x.t = "num" -> Return(IntChars(x.n))
      [] x.t = "bool" -> Return(IntChars(IF x.b THEN 1 ELSE 0))
      [] OTHER -> Raise(OtherExc("TypeError", "%d format: a number is required"))

\* '%d' % int(x)
FormatDInt(x) == LET n == PyInt(x) IN IF n.kind = "raise" THEN n ELSE Return(IntChars(n.value))

\* if x: resource += '<prefix>%s' % x, with '%s' % x = str(x)
FilterStr(x, prefix) == IF PyTruthy(x) THEN Cat(Return(<<prefix>>), Return(StrOf(x))) ELSE Return(<<>>)

\* Variant of FilterInt: the fragment of every filter that is not None.
FilterInt_ZeroKept(x, prefix) ==
    IF x # JNull THEN Cat(Return(<<prefix>>), FormatDInt(x)) ELSE Return(<<>>)

\* if x: resource += '<prefix>%d' % int(x)
FilterInt(x, prefix) == IF PyTruthy(x) THEN Cat(Return(<<prefix>>), FormatDInt(x)) ELSE Return(<<>>)

\* lines 707-715
GetVouchersResource(a) ==
    Cat(Return(<<"vouchers">>),
    Cat(FilterStr(a.vid_encoded, "/"),
    Cat(FilterInt(a.uid_from, "/from="),
    Cat(FilterInt(a.uid_to, "/to="),
    Cat(FilterStr(a.gid, "/gid="),
    Cat(FilterStr(a.valid_after, "/valid_after="),
    Cat(FilterStr(a.valid_before, "/valid_before="),
    Cat(FilterInt(a.first, "/first="),
        FilterInt(a.last, "/last=")))))))))

\* lines 784-796
GetVouchersHistoryResource(a) ==
    Cat(Return(<<"vouchers/history">>),
    Cat(FilterStr(a.vid_encoded, "/"),
    Cat(FilterInt(a.vid, "/vid="),
    Cat(FilterStr(a.action, "/action="),
    Cat(FilterInt(a.uid_from, "/from="),
    Cat(FilterInt(a.uid_to, "/to="),
    Cat(FilterStr(a.gid, "/gid="),
    Cat(FilterStr(a.valid_after, "/valid_after="),
    Cat(FilterStr(a.valid_before, "/valid_before="),
    Cat(FilterStr(a.create_after, "/create_after="),
    Cat(FilterStr(a.create_before, "/create_before="),
    Cat(FilterInt(a.first, "/first="),
        FilterInt(a.last, "/last=")))))))))))))

\* line 203: 'objects/%d/tokens/%s' % (oid, tid)
VerifyPurchaseResource(a) ==
    Cat(Return(<<"objects/">>), Cat(FormatD(a.oid), Cat(Return(<<"/tokens/">>), Return(StrOf(a.tid)))))

\* The operation raises while it builds its resource, or calls request with it.
ResourceRequest(c, op, a, resource) ==
    IF resource.kind = "raise"
    THEN Applied(c, op, a, resource)
    ELSE /\ RequestBegin(c, op, "get", resource.value, <<>>)
         /\ opargs' = [opargs EXCEPT ![c] = a]

\* Filter values: none, zero, numbers, a number as a string, a string that
\* is no number; identifiers, and a string with a "/".
GetVouchers(c) ==
    LET VouchersArgs ==
            [ vid_encoded : {JNull, PyS(<<"a", "b", "2", "e">>)},
              uid_from : {JNull, JNum(0), JNum(7), PyS(<<"7">>), PyS(<<"x">>)},
              uid_to : {JNull, JNum(5)},
              gid : {JNull, PyS(<<"g", "1">>), PyS(<<"a", "/", "b">>)},
              valid_after : {JNull, PyS(<<"2", "0", "1", "2">>)},
              valid_before : {JNull, PyS(<<"2", "0", "1", "3">>)},
              first : {JNull, JNum(0), JNum(1)},
              last : {JNull, JNum(2)} ]
    IN
    /\ pc[c] = "idle"
    /\ \E a \in VouchersArgs : ResourceRequest(c, "get_vouchers", a, GetVouchersResource(a))

GetVouchersHistory(c) ==
    LET VouchersHistoryArgs ==
            [ vid_encoded : {JNull, PyS(<<"a", "b", "2", "e">>)},
              vid : {JNull, JNum(9)},
              action : {JNull, PyS(<<"u", "s", "e">>)},
              uid_from : {JNull, JNum(7)},
              uid_to : {JNull},
              gid : {JNull, PyS(<<"g", "1">>)},
              valid_after : {JNull},
              valid_before : {JNull, PyS(<<"2", "0", "1", "3">>)},
              create_after : {JNull, PyS(<<"2", "0", "1", "2">>)},
              create_before : {JNull},
              first : {JNull, JNum(1)},
              last : {JNull, JNum(0), JNum(2)} ]
    IN
    /\ pc[c] = "idle"
    /\ \E a \in VouchersHistoryArgs :
           ResourceRequest(c, "get_vouchers_history", a, GetVouchersHistoryResource(a))

VerifyPurchase(c) ==
    LET VerifyPurchaseArgs ==
            [ oid : {JNum(7), PyS(<<"7">>)},
              tid : {PyS(<<"a", "b", "2", "e">>), PyS(<<"a", "/", "b">>)} ]
    IN
    /\ pc[c] = "idle"
    /\ \E a \in VerifyPurchaseArgs :
           ResourceRequest(c, "verify_purchase", a, VerifyPurchaseResource(a))

\* Variant of RevokeVouchersResource: the gid filter is left out.
RevokeVouchersResource_NoGid(a) ==
    Cat(Return(<<"vouchers">>),
    Cat(FilterStr(a.vid_encoded, "/"),
    Cat(FilterInt(a.uid_from, "/from="),
    Cat(FilterInt(a.uid_to, "/to="),
    Cat(FilterStr(a.valid_after, "/valid_after="),
    Cat(FilterStr(a.valid_before, "/valid_before="),
    Cat(FilterInt(a.first, "/first="),
        FilterInt(a.last, "/last="))))))))

\* lines 854-862
RevokeVouchersResource(a) ==
    Cat(Return(<<"vouchers">>),
    Cat(FilterStr(a.vid_encoded, "/"),
    Cat(FilterInt(a.uid_from, "/from="),
    Cat(FilterInt(a.uid_to, "/to="),
    Cat(FilterStr(a.gid, "/gid="),
    Cat(FilterStr(a.valid_after, "/valid_after="),
    Cat(FilterStr(a.valid_before, "/valid_before="),
    Cat(FilterInt(a.first, "/first="),
        FilterInt(a.last, "/last=")))))))))

\* revoke_vouchers(...), lines 799-863: the resource, then
\* self.request('delete', resource, json.dumps({'revoke': True})).
RevokeVouchers(c) ==
    LET RevokeArgs ==
            [ vid_encoded : {JNull, PyS(<<"a", "b", "2", "e">>)},
              uid_from : {JNull, JNum(0), JNum(7), PyS(<<"x">>)},
              uid_to : {JNull, JNum(5)},
              gid : {JNull, PyS(<<"g", "1">>)},
              valid_after : {JNull, PyS(<<"2", "0", "1", "2">>)},
              valid_before : {JNull},
              first : {JNull, JNum(0), JNum(1)},
              last : {JNull, JNum(2)} ]
    IN
    /\ pc[c] = "idle"
    /\ \E a \in RevokeArgs :
           IF RevokeVouchersResource(a).kind = "raise"
           THEN Applied(c, "revoke_vouchers", a, RevokeVouchersResource(a))
           ELSE /\ RequestBegin(c, "revoke_vouchers", "delete", RevokeVouchersResource(a).value,
                                Dumps(JObj([k \in {"revoke"} |-> JBool(TRUE)])))
                /\ opargs' = [opargs EXCEPT ![c] = a]

\* lines 436-440
GetObjectsResource(a) ==
    Cat(Return(<<"registry/objects">>),
    Cat(FilterInt(a.oid, "/"),
    Cat(FilterStr(a.since, "/since="),
    Cat(FilterStr(a.until, "/until="),
    Cat(FilterInt(a.first, "/first="),
        FilterInt(a.last, "/last="))))))

\* get_objects(oid, since, until, last, first), lines 397-441
GetObjects(c) ==
    LET ObjectsArgs ==
            [ oid : {JNull, JNum(7)},
              since : {JNull, PyS(<<"2", "0", "1", "2">>)},
              until : {JNull, PyS(<<"2", "0", "1", "3">>)},
              first : {JNull, JNum(0), JNum(1)},
              last : {JNull, JNum(2)} ]
    IN
    /\ pc[c] = "idle"
    /\ \E a \in ObjectsArgs : ResourceRequest(c, "get_objects", a, GetObjectsResource(a))

(***************************************************************************)
(* SpecPath: one thread calls the operations that build their resource     *)
(* from filters, with every combination of the filter values above.        *)
(***************************************************************************)
NextPath ==
    \/ GetVouchers(MainThread)
    \/ GetVouchersHistory(MainThread)
    \/ VerifyPurchase(MainThread)
    \/ RevokeVouchers(MainThread)
    \/ GetObjects(MainThread)
    \/ ConnRequest(MainThread, {"socket.error"})
    \/ ConnGetResponse(MainThread, FewResponses, {"socket.error"})
    \/ ReturnToCaller(MainThread)

SpecPath == InitConc /\ [][NextPath]_vars

(***************************************************************************)
(* Properties.                                                             *)
(***************************************************************************)
\* Thread c's call has ended with a completed response: status and decoded
\* body reached the classification.
Completed(c) == pc[c] = "done" /\ fail[c] = "none"

\* The parsed body of thread c's response.
Parsed(c) == Loads(resp[c].body)

\* The parsed body is a JSON object that holds the key.
BodyHas(c, key) == Parsed(c).ok /\ Parsed(c).val.t = "obj" /\ key \in DOMAIN Parsed(c).val.m

WellFormedError(c) ==
    /\ Completed(c)
    /\ resp[c].status \notin 200..299
    /\ BodyHas(c, "message")
    /\ BodyHas(c, "context")

\* The class the claim gives to each of the five dispatched statuses.
ClassOfStatus(status) ==
    CASE status = 400 -> "InvalidData"
      [] status = 403 -> "Forbidden"
      [] status = 404 -> "NotFound"
      [] status = 500 -> "InternalError"
      [] status = 409 -> "GeneralException"

\* C1: for every response whose status is in 200..299 and whose body parses
\* as a JSON object with a `data` field, request returns exactly the value of
\* that field and raises nothing; in particular the text json.dumps writes for
\* an envelope {data: v} comes back as v.
C1_SuccessReturnsData ==
    \A c \in Callers :
        (Completed(c) /\ resp[c].status \in 200..299) =>
            /\ BodyHas(c, "data") => result[c] = Return(Parsed(c).val.m["data"])
            /\ \A v \in DataValues :
                 resp[c].body = Dumps(JObj([k \in {"data"} |-> v])) => result[c] = Return(v)

\* C1 happens: a 204 whose envelope carries data = null returns null.
C1_Witness ==
    \E c \in Callers :
        /\ Completed(c)
        /\ resp[c].status = 204
        /\ resp[c].body = Dumps(JObj([k \in {"data"} |-> JNull]))
        /\ result[c] = Return(JNull)

\* C2: for a non-2xx response whose JSON body carries `message` and
\* `context`, 400 raises InvalidData, 403 Forbidden, 404 NotFound, 500
\* InternalError and 409 exactly GeneralException, each with the envelope's
\* message as msg and the envelope's context as context.
C2_StatusSelectsErrorKind ==
    \A c \in Callers :
        (WellFormedError(c) /\ resp[c].status \in {400, 403, 404, 500, 409}) =>
            /\ result[c].kind = "raise"
            /\ result[c].exc.cls = ClassOfStatus(resp[c].status)
            /\ result[c].exc.msg = Parsed(c).val.m["message"]
            /\ result[c].exc.context = Parsed(c).val.m["context"]

\* C2 happens: a 403 with a well-formed envelope raised Forbidden.
C2_Witness ==
    \E c \in Callers :
        /\ WellFormedError(c)
        /\ resp[c].status = 403
        /\ result[c].kind = "raise"
        /\ result[c].exc.cls = "Forbidden"
        /\ result[c].exc.msg = JStr("bad")

\* C3: the dispatch is total: every status outside 200..299 and outside
\* {400, 403, 404, 500, 409}, with a well-formed envelope, raises one error of
\* class GeneralException whose code is the status.
C3_OtherStatusIsGeneric ==
    \A c \in Callers :
        (WellFormedError(c) /\ resp[c].status \notin {400, 403, 404, 500, 409}) =>
            /\ result[c].kind = "raise"
            /\ result[c].exc.cls = "GeneralException"
            /\ result[c].exc.code = resp[c].status
            /\ result[c].exc.msg = Parsed(c).val.m["message"]
            /\ result[c].exc.context = Parsed(c).val.m["context"]

\* C3 happens: a status outside the five (1xx, 3xx, 402, 410 or 501) was raised
\* as a generic error carrying the status.
C3_Witness ==
    \E c \in Callers :
        /\ WellFormedError(c)
        /\ resp[c].status \in {100, 301, 402, 410, 501}
        /\ result[c].kind = "raise"
        /\ result[c].exc.cls = "GeneralException"
        /\ result[c].exc.code = resp[c].status

\* C4: a malformed envelope raises InvalidData: a 2xx whose parsed body has no
\* `data`, and a non-2xx whose parsed body lacks `message` or `context`,
\* whatever the status is; the status dispatch is not reached, so the error
\* is InvalidData also for 403, 404, 500 and 409.
C4_MalformedIsInvalidData ==
    \A c \in Callers :
        (Completed(c) /\ Parsed(c).ok) =>
            /\ (resp[c].status \in 200..299 /\ ~BodyHas(c, "data")) =>
                  result[c] = Raise(InvalidData1(JStr("Invalid server DATA response format!")))
            /\ (resp[c].status \notin 200..299
                  /\ (~BodyHas(c, "message") \/ ~BodyHas(c, "context"))) =>
                  result[c] = Raise(InvalidData1(JStr("Invalid server ERROR response format!")))

\* C4 happens: a 404 whose body has a message but no context raised
\* InvalidData, not NotFound.
C4_Witness ==
    \E c \in Callers :
        /\ Completed(c)
        /\ resp[c].status = 404
        /\ BodyHas(c, "message")
        /\ ~BodyHas(c, "context")
        /\ result[c].kind = "raise"
        /\ result[c].exc.cls = "InvalidData"

\* C5: a body that is not parseable as JSON raises GeneralException with the
\* raw body as msg and the response status as code, for 2xx statuses too.
C5_NonJsonIsGeneric ==
    \A c \in Callers :
        (Completed(c) /\ ~Parsed(c).ok) =>
            /\ result[c].kind = "raise"
            /\ result[c].exc.cls = "GeneralException"
            /\ result[c].exc.msg = Text(resp[c].body)
            /\ result[c].exc.code = resp[c].status

\* C5 happens: a 204 with an empty body is an error carrying code 204.
C5_Witness ==
    \E c \in Callers :
        /\ Completed(c)
        /\ resp[c].status = 204
        /\ resp[c].body = <<>>
        /\ result[c].kind = "raise"
        /\ result[c].exc.code = 204

\* The client's credentials are set and its endpoint's scheme is https.
Configured ==
    /\ api_key \notin {NoneVal, ""}
    /\ api_secret \notin {NoneVal, ""}
    /\ UrlScheme(api_endpoint) = "https"

\* Thread c makes this step create a connection object or send a request.
TouchesNetwork(c) ==
    \/ conn[c].state = "none" /\ conn'[c].state # "none"
    \/ conn[c].state # "open" /\ conn'[c].state = "open"
    \/ nhttp'[c] > nhttp[c]
    \/ nconn'[c] > nconn[c]

\* Thread c makes this step enter request.
EntersRequest(c) == pc[c] = "idle" /\ pc'[c] # "idle"

\* C6: a constructed client has non-empty credentials, and no step creates a
\* connection or sends a request while the key or the secret is empty or the
\* endpoint's scheme is not https: request then fails at once with the
\* configuration error, credentials checked first, also when the fields were
\* assigned after construction.
C6_NoNetworkUnlessConfigured ==
    /\ (api_key \notin {NoneVal, ""} /\ api_secret \notin {NoneVal, ""})
    /\ [][\A c \in Callers :
            /\ TouchesNetwork(c) => Configured
            /\ (EntersRequest(c) /\ ~Configured) =>
                  /\ pc'[c] = "done"
                  /\ conn'[c] = NoConn
                  /\ nhttp'[c] = 0
                  /\ result'[c] =
                        IF api_key \in {NoneVal, ""} \/ api_secret \in {NoneVal, ""}
                        THEN Raise(OtherExc("Exception",
                                 "Vingd authentication credentials undefined."))
                        ELSE Raise(OtherExc("Exception",
                                 "Invalid Vingd endpoint URL (non-https)."))]_vars

\* C6 happens: the secret was emptied after construction, and a call ended
\* with the configuration error and no connection.
C6_Witness ==
    \E c \in Callers :
        /\ pc[c] = "done"
        /\ api_key = "k"
        /\ api_secret = ""
        /\ fail[c] = "credentials"
        /\ conn[c] = NoConn
        /\ nhttp[c] = 0

\* C7 (as claimed): every transport failure of request, while connecting,
\* sending or reading, reaches the caller as InternalError with code 500 and
\* context "Internal error".
C7_TransportFailureIsInternalError ==
    \A c \in Callers :
        (pc[c] = "done" /\ fail[c] \in {"socket.error", "socket.timeout", "HTTPException"}) =>
            /\ result[c].kind = "raise"
            /\ result[c].exc.cls = "InternalError"
            /\ result[c].exc.code = 500
            /\ result[c].exc.context = JStr("Internal error")

\* C8 (as claimed): when request has returned or raised, the connection it
\* opened is closed.
C8_ConnectionClosedOnExit ==
    \A c \in Callers : pc[c] = "done" => conn[c].state # "open"

\* C9: a call of request that passes the checks makes one connection and
\* issues one HTTP request on it, never more, whatever the outcome (a
\* transport failure and a 5xx response included); each domain operation
\* calls request once.
C9_OneRequestPerCall ==
    \A c \in Callers :
        /\ nhttp[c] <= 1 /\ nconn[c] <= 1 /\ nrequest[c] <= 1
        /\ pc[c] = "conn_request" => nconn[c] = 1 /\ nhttp[c] = 0
        /\ pc[c] = "getresponse" => nconn[c] = 1 /\ nhttp[c] = 1
        /\ pc[c] = "done" =>
              /\ nrequest[c] = 1
              /\ fail[c] \in {"credentials", "scheme"} => nconn[c] = 0 /\ nhttp[c] = 0
              /\ fail[c] \notin {"credentials", "scheme"} => nconn[c] = 1 /\ nhttp[c] = 1

\* C9 happens: create_object ended on a caught transport failure after one
\* request.
C9_Witness ==
    \E c \in Callers :
        /\ pc[c] = "done"
        /\ call[c].op = "create_object"
        /\ fail[c] = "HTTPException"
        /\ nrequest[c] = 1
        /\ nhttp[c] = 1

\* Everything thread c holds of its call.
LocalsOf(c) ==
    <<pc[c], call[c], conn[c], wire[c], resp[c], fail[c], result[c], opresult[c]>>

\* C10: no step of a call changes the client's key, secret, endpoint or
\* frontend, and a step of one thread changes nothing another thread's call
\* holds: a call's result, once set, stays what its own response made it.
C10_CallsAreIndependent ==
    [][\A c \in Callers :
          /\ pc'[c] # pc[c] =>
                /\ <<api_key, api_secret, api_endpoint, usr_frontend>>'
                      = <<api_key, api_secret, api_endpoint, usr_frontend>>
                /\ \A d \in Callers \ {c} : LocalsOf(d)' = LocalsOf(d)
          /\ pc'[c] = pc[c] => LocalsOf(c)' = LocalsOf(c)
          /\ (pc'[c] = "done" /\ fail'[c] = "none") =>
                result'[c] = Classify(resp'[c].status, resp'[c].body)]_vars

\* C10 happens: two calls are done at once with different results.
C10_Witness ==
    \E c, d \in Callers :
        /\ c # d
        /\ pc[c] = "done" /\ pc[d] = "done"
        /\ result[c].kind = "return"
        /\ result[d].kind = "raise"

(***************************************************************************)
(* Properties of util.safeformat.                                          *)
(***************************************************************************)
\* A string of characters (or of pieces) read as one string.
RECURSIVE Flat(_)
Flat(chars) == IF chars = <<>> THEN "" ELSE Head(chars) \o Flat(Tail(chars))

\* Thread c has called safeformat with this format string.
Formatted(c, format_string) ==
    /\ pc[c] = "done"
    /\ call[c].op = "safeformat"
    /\ opargs[c].format_string = format_string

\* An optionally signed run of decimal digits.
IsSignedDecimal(s) ==
    LET digits == IF s # <<>> /\ Head(s) \in {"-", "+"} THEN Tail(s) ELSE s
    IN  digits # <<>> /\ \A i \in 1..Len(digits) : digits[i] \in Digits

\* C11: every string safeformat substitutes is of its placeholder's class:
\* int gives an optionally signed decimal integer, hex only characters 0-9,
\* a-f, A-F (possibly none), ident only letters, digits, underscore and
\* hyphen (possibly none); an argument holding any other character, a
\* trailing newline included, is never accepted by hex or ident.
C11_SubstitutedMatchesClass ==
    \A c \in Callers :
        /\ (Formatted(c, <<"{", ":", "i", "n", "t", "}">>) /\ result[c].kind = "return") =>
              IsSignedDecimal(result[c].value)
        /\ (Formatted(c, <<"{", ":", "h", "e", "x", "}">>) /\ result[c].kind = "return") =>
              /\ \A i \in 1..Len(result[c].value) : result[c].value[i] \in HexLetters \cup Digits
              /\ \A i \in 1..Len(StrOf(opargs[c].args[1])) :
                    StrOf(opargs[c].args[1])[i] \in HexLetters \cup Digits
        /\ (Formatted(c, <<"{", ":", "i", "d", "e", "n", "t", "}">>) /\ result[c].kind = "return") =>
              /\ \A i \in 1..Len(result[c].value) : result[c].value[i] \in WordChars \cup {"-"}
              /\ \A i \in 1..Len(StrOf(opargs[c].args[1])) :
                    StrOf(opargs[c].args[1])[i] \in WordChars \cup {"-"}

\* The placeholders of a format string from index i on, left to right: where
\* each starts and ends, its index digits (none when implicit) and its type.
RECURSIVE PlaceholdersFrom(_, _)
PlaceholdersFrom(s, i) ==
    IF i > Len(s) THEN <<>>
    ELSE LET m == MatchPlaceholder(s, i) IN
         IF m.ok
         THEN <<[start |-> i, next |-> m.next, idx |-> m.idx, typ |-> m.typ]>>
                 \o PlaceholdersFrom(s, m.next)
         ELSE PlaceholdersFrom(s, i + 1)

\* The argument position the k-th placeholder refers to: its explicit index,
\* or the number of index-less placeholders before it.
ArgIndexOf(ps, k) ==
    IF ps[k].idx = <<>> THEN Cardinality({j \in 1..(k - 1) : ps[j].idx = <<>>})
    ELSE DigitsValue(ps[k].idx)

IndexInBounds(ps, k, args) == ArgIndexOf(ps, k) < Len(args)
TypeKnown(ps, k) == ps[k].typ \in ConverterNames
Converted(ps, k, args) == Convert(ps[k].typ, args[ArgIndexOf(ps, k) + 1])

ValidPlaceholder(ps, k, args) ==
    /\ IndexInBounds(ps, k, args)
    /\ TypeKnown(ps, k)
    /\ Converted(ps, k, args).kind = "return"

\* The format string up to the end of its k-th placeholder, each placeholder
\* replaced by its converted argument.
RECURSIVE FilledUpTo(_, _, _, _)
FilledUpTo(s, ps, args, k) ==
    IF k = 0 THEN <<>>
    ELSE FilledUpTo(s, ps, args, k - 1)
            \o SubSeq(s, IF k = 1 THEN 1 ELSE ps[k - 1].next, ps[k].start - 1)
            \o Converted(ps, k, args).value

Filled(s, args) ==
    LET ps == PlaceholdersFrom(s, 1) IN
    FilledUpTo(s, ps, args, Len(ps))
        \o SubSeq(s, IF ps = <<>> THEN 1 ELSE ps[Len(ps)].next, Len(s))

\* C13: a placeholder with an explicit index uses that argument and does not
\* advance the implicit counter; an index-less placeholder uses the counter,
\* which starts at 0 and advances by one per index-less placeholder; an
\* argument may be used more than once and text outside placeholders is
\* copied unchanged.  safeformat("{:hex}", "ab2e") = "ab2e",
\* safeformat("{1:str} {0:int}", 7, "x") = "x 7" and
\* safeformat("{:hex}. item: {0:str}", 13) = "13. item: 13".
C13_IndexResolution ==
    \A c \in Callers :
        (pc[c] = "done" /\ call[c].op = "safeformat") =>
            LET s == opargs[c].format_string
                args == opargs[c].args
                ps == PlaceholdersFrom(s, 1)
            IN  /\ (\A k \in 1..Len(ps) : ValidPlaceholder(ps, k, args)) =>
                      result[c] = Return(Filled(s, args))
                /\ (s = <<"{", ":", "h", "e", "x", "}">> /\ args = <<PyS(<<"a", "b", "2", "e">>)>>) =>
                      result[c] = Return(<<"a", "b", "2", "e">>)
                /\ (s = <<"{", "1", ":", "s", "t", "r", "}", " ", "{", "0", ":", "i", "n", "t", "}">> /\ args = <<JNum(7), PyS(<<"x">>)>>) =>
                      result[c] = Return(<<"x", " ", "7">>)
                /\ (s = <<"{", ":", "h", "e", "x", "}", ".", " ", "i", "t", "e", "m", ":", " ", "{", "0", ":", "s", "t", "r", "}">> /\ args = <<JNum(13)>>) =>
                      result[c] = Return(<<"1", "3", ".", " ", "i", "t", "e", "m", ":", " ", "1", "3">>)
                /\ (s = <<"{", "0", ":", "i", "n", "t", "}", "{", ":", "s", "t", "r", "}">> /\ args = <<JNum(7), PyS(<<"x">>)>>) =>
                      result[c] = Return(<<"7", "7">>)
                /\ (s = <<"{", ":", "i", "n", "t", "}", "/", "{", ":", "i", "d", "e", "n", "t", "}">> /\ args = <<JNum(7), PyS(<<"x">>)>>) =>
                      result[c] = Return(<<"7", "/", "x">>)
                /\ ps = <<>> => result[c] = Return(s)

\* C13 happens: one argument is used by an index-less and by an indexed
\* placeholder.
C13_Witness ==
    \E c \in Callers :
        /\ Formatted(c, <<"{", ":", "h", "e", "x", "}", ".", " ", "i", "t", "e", "m", ":", " ", "{", "0", ":", "s", "t", "r", "}">>)
        /\ opargs[c].args = <<JNum(13)>>
        /\ Flat(result[c].value) = "13. item: 13"

\* C14: safeformat returns nothing when a placeholder is invalid: at the first
\* invalid placeholder, left to right, it raises ConversionError, for an
\* index out of bounds, else for an unknown type, else for an argument the
\* converter rejects (as safeformat("{:hex}", "zz")); no partly substituted
\* string is returned.
C14_InvalidRaisesConversionError ==
    \A c \in Callers :
        (pc[c] = "done" /\ call[c].op = "safeformat") =>
            LET s == opargs[c].format_string
                args == opargs[c].args
                ps == PlaceholdersFrom(s, 1)
                bad == {k \in 1..Len(ps) : ~ValidPlaceholder(ps, k, args)}
            IN  /\ bad # {} =>
                      LET k == CHOOSE b \in bad : \A o \in bad : b <= o IN
                      /\ result[c].kind = "raise"
                      /\ result[c].exc.cls = "ConversionError"
                      /\ result[c].exc.msg =
                            JStr(IF ~IndexInBounds(ps, k, args) THEN "Index out of bounds"
                                 ELSE IF ~TypeKnown(ps, k) THEN "Invalid converter/type"
                                 ELSE "Argument not of type")
                /\ (s = <<"{", ":", "h", "e", "x", "}">> /\ args = <<PyS(<<"z", "z">>)>>) =>
                      result[c] = Raise(OtherExc("ConversionError", "Argument not of type"))

\* C14 happens: a placeholder with an index out of bounds and an unknown type
\* raised for the index.
C14_Witness ==
    \E c \in Callers :
        /\ Formatted(c, <<"{", "2", ":", "b", "a", "d", "}">>)
        /\ Len(opargs[c].args) = 2
        /\ result[c] = Raise(OtherExc("ConversionError", "Index out of bounds"))

(***************************************************************************)
(* Properties of util.parse_duration.                                      *)
(***************************************************************************)
\* Thread c has called parse_duration.
DurationParsed(c) == pc[c] = "done" /\ call[c].op = "parse_duration"

\* The string as it is matched: without spaces, in upper case.
Matched(c) == Normalise(opargs[c].string)

SixUnits == {"years", "months", "days", "hours", "minutes", "seconds"}

\* Where the T of a string is (past its end when there is none).
TPos(s) == IF \E i \in 1..Len(s) : s[i] = "T"
           THEN CHOOSE i \in 1..Len(s) : s[i] = "T" /\ \A j \in 1..(i - 1) : s[j] # "T"
           ELSE Len(s) + 1

\* Where the letter of a unit is in a string of the first format (0: nowhere).
UnitPos(s, unit) ==
    LET where == {i \in 1..Len(s) :
                    CASE unit = "years" -> s[i] = "Y"
                      [] unit = "months" -> s[i] = "M" /\ i < TPos(s)
                      [] unit = "days" -> s[i] = "D"
                      [] unit = "hours" -> s[i] = "H"
                      [] unit = "minutes" -> s[i] = "M" /\ i > TPos(s)
                      [] unit = "seconds" -> s[i] = "S"}
    IN  IF where = {} THEN 0 ELSE CHOOSE i \in where : TRUE

UnitsIn(s) == {unit \in SixUnits : UnitPos(s, unit) # 0}

\* The digits that end just before index p.
RECURSIVE DigitsBefore(_, _)
DigitsBefore(s, p) ==
    IF p > 1 /\ s[p - 1] \in Digits THEN DigitsBefore(s, p - 1) \o <<s[p - 1]>> ELSE <<>>

\* The integer written before a unit's letter.
UnitValue(s, unit) == DigitsValue(DigitsBefore(s, UnitPos(s, unit)))

\* C15 as stated: for every string of the first format the mapping holds a
\* key for exactly the units that appear in the string, each with its integer,
\* and no key for an absent unit; parse_duration("P1Y2M3D") is exactly
\* {years: 1, months: 2, days: 3} and parse_duration("P2W") exactly {weeks: 2}.
C15_OnlyMatchedUnits ==
    \A c \in Callers :
        DurationParsed(c) =>
            /\ Pattern1(Matched(c)).ok =>
                  /\ result[c].kind = "return"
                  /\ DOMAIN result[c].value = UnitsIn(Matched(c))
                  /\ \A unit \in UnitsIn(Matched(c)) :
                        result[c].value[unit] = UnitValue(Matched(c), unit)
            /\ opargs[c].string = <<"P", "1", "Y", "2", "M", "3", "D">> =>
                  result[c] = Return([years |-> 1, months |-> 2, days |-> 3])
            /\ opargs[c].string = <<"P", "2", "W">> => result[c] = Return([weeks |-> 2])

\* C15, amended: for every string of the first format the mapping holds all
\* six keys years, months, days, hours, minutes, seconds (and no weeks): a
\* unit that appears has its integer, an absent unit has 0;
\* parse_duration("P1Y2M3D") is {years: 1, months: 2, days: 3, hours: 0,
\* minutes: 0, seconds: 0} and parse_duration("P2W") exactly {weeks: 2}.
C15_AbsentUnitsAreZero ==
    \A c \in Callers :
        DurationParsed(c) =>
            /\ Pattern1(Matched(c)).ok =>
                  /\ result[c].kind = "return"
                  /\ DOMAIN result[c].value = SixUnits
                  /\ \A unit \in SixUnits :
                        result[c].value[unit] =
                            IF unit \in UnitsIn(Matched(c)) THEN UnitValue(Matched(c), unit) ELSE 0
            /\ opargs[c].string = <<"P", "1", "Y", "2", "M", "3", "D">> =>
                  result[c] = Return([years |-> 1, months |-> 2, days |-> 3,
                                      hours |-> 0, minutes |-> 0, seconds |-> 0])
            /\ opargs[c].string = <<"P", "2", "W">> => result[c] = Return([weeks |-> 2])

\* C15 happens: "P1Y2M3D" was parsed, and its time units are there, as 0.
C15_Witness ==
    \E c \in Callers :
        /\ DurationParsed(c)
        /\ opargs[c].string = <<"P", "1", "Y", "2", "M", "3", "D">>
        /\ result[c].kind = "return"
        /\ result[c].value["years"] = 1
        /\ result[c].value["hours"] = 0

\* A time component stands where no T precedes it.
TimeComponentWithoutT(s) == \E i \in 1..Len(s) : s[i] \in {"H", "S"} /\ i < TPos(s)

\* A T ends the string: no time component follows it.
DanglingT(s) == s # <<>> /\ s[Len(s)] = "T"

\* No format matched: the mapping is empty.
NotMatched(c) == result[c] = Return(EmptyMap)

\* C16 as stated: in the first format a T is accepted if and only if a time
\* component follows it: a time component without a T ("P1H") is not
\* matched, a T with no time component after it ("PT", "P1DT") is not matched,
\* the P is required and the empty string is not matched.
C16_TIffTimeComponent ==
    \A c \in Callers :
        DurationParsed(c) =>
            /\ TimeComponentWithoutT(Matched(c)) => NotMatched(c)
            /\ DanglingT(Matched(c)) => NotMatched(c)
            /\ (Matched(c) = <<>> \/ Head(Matched(c)) # "P") => NotMatched(c)
            /\ opargs[c].string = <<"P", "1", "H">> => NotMatched(c)
            /\ opargs[c].string = <<"P", "T", "5", "M">> => ~NotMatched(c)

\* C16, amended: in the first format a time component is accepted only after
\* a T ("P1H" is not matched), but a T is accepted with or without a time
\* component after it: "PT" and "P1DT" are matched, their time units being
\* 0; the P is required and the empty string is not matched.
C16_TimeComponentNeedsT ==
    \A c \in Callers :
        DurationParsed(c) =>
            /\ TimeComponentWithoutT(Matched(c)) => NotMatched(c)
            /\ (Matched(c) = <<>> \/ Head(Matched(c)) # "P") => NotMatched(c)
            /\ opargs[c].string = <<"P", "1", "H">> => NotMatched(c)
            /\ opargs[c].string = <<"P", "T", "5", "M">> =>
                  result[c] = Return([years |-> 0, months |-> 0, days |-> 0,
                                      hours |-> 0, minutes |-> 5, seconds |-> 0])
            /\ opargs[c].string = <<"P", "T">> =>
                  result[c] = Return([years |-> 0, months |-> 0, days |-> 0,
                                      hours |-> 0, minutes |-> 0, seconds |-> 0])
            /\ opargs[c].string = <<"P", "1", "D", "T">> =>
                  result[c] = Return([years |-> 0, months |-> 0, days |-> 1,
                                      hours |-> 0, minutes |-> 0, seconds |-> 0])

\* C16 happens: "P1DT" was parsed and matched.
C16_Witness ==
    \E c \in Callers :
        /\ DurationParsed(c)
        /\ opargs[c].string = <<"P", "1", "D", "T">>
        /\ DanglingT(Matched(c))
        /\ ~NotMatched(c)

\* C17: parse_duration raises for no string: without spaces and in upper
\* case, a string none of the three formats matches gives the empty mapping
\* (as "garbage" does); the formats are tried in order and the first that
\* matches gives the result.
C17_NeverRaises ==
    \A c \in Callers :
        DurationParsed(c) =>
            LET s == Matched(c) IN
            /\ result[c].kind = "return"
            /\ (~Pattern1(s).ok /\ ~Pattern2(s).ok /\ ~Pattern3(s).ok) => NotMatched(c)
            /\ opargs[c].string = <<"g", "a", "r", "b", "a", "g", "e">> => NotMatched(c)
            /\ Pattern1(s).ok => result[c] = GroupDict(Pattern1(s).groups)
            /\ (~Pattern1(s).ok /\ Pattern2(s).ok) => DOMAIN result[c].value = {"weeks"}
            /\ (~Pattern1(s).ok /\ ~Pattern2(s).ok /\ Pattern3(s).ok) =>
                  result[c] = GroupDict(Pattern3(s).groups)
            /\ opargs[c].string = <<"P", "1", "2", "w">> => result[c] = Return([weeks |-> 12])
            /\ opargs[c].string \in {<<"P", "0", "0", "0", "1", "0", "2", "0", "3", "T", "0", "3", "0", "2", "0", "1">>, <<"P", " ", "0", "0", "0", "1", "-", "0", "2", "-", "0", "3", " ", "T", " ", "0", "3", ":", "0", "2", ":", "0", "1">>} =>
                  result[c] = Return([years |-> 1, months |-> 2, days |-> 3,
                                      hours |-> 3, minutes |-> 2, seconds |-> 1])
            /\ opargs[c].string \in {<<"P", "0", "0", "0", "1", "-", "0", "2", "0", "3", "T", "0", "3", ":", "0", "2", ":", "0", "1">>, <<"P", "0", "0", "0", "1", "-", "0", "2", "-", "0", "3", "T", "0", "3", "0", "2", "0", "1">>} => NotMatched(c)

\* C17 happens: "garbage" was parsed, to the empty mapping.
C17_Witness ==
    \E c \in Callers :
        /\ DurationParsed(c)
        /\ opargs[c].string = <<"g", "a", "r", "b", "a", "g", "e">>
        /\ result[c] = Return(EmptyMap)

(***************************************************************************)
(* Properties of Vingd._extract_id_from_batch_response.                    *)
(***************************************************************************)
\* Thread c has called _extract_id_from_batch_response.
Extracted(c) == pc[c] = "done" /\ call[c].op = "_extract_id_from_batch_response"

\* The response thread c passed, as a dict.
Given(c) == opargs[c].r.m

\* A value int() turns into an integer.
IsIntLike(v) == v.t = "num" \/ (v.t = "str" /\ IsIntText(v.s))
IntLike(v) == IF v.t = "num" THEN v.n ELSE IntOfText(v.s)

\* C19: when the plural key is present, a non-empty errors list raises
\* GeneralException with the first error's desc as msg, even when the plural
\* list holds an id, and otherwise the id is the first element of the plural
\* list; when the plural key is absent the id is the singular field, errors
\* or not.  {"oids": [42], "errors": []} gives 42, {"oid": "42"} gives 42,
\* {"oids": [], "errors": [{"desc": "bad"}]} raises GeneralException "bad".
C19_BatchThenSimple ==
    \A c \in Callers :
        Extracted(c) =>
            LET r == Given(c)
                errs == "errors" \in DOMAIN r /\ r["errors"].t = "arr" /\ Len(r["errors"].a) > 0
            IN  /\ ("oids" \in DOMAIN r /\ errs /\ "desc" \in DOMAIN r["errors"].a[1].m) =>
                      /\ result[c].kind = "raise"
                      /\ result[c].exc.cls = "GeneralException"
                      /\ result[c].exc.msg = r["errors"].a[1].m["desc"]
                /\ ("oids" \in DOMAIN r /\ ~errs /\ r["oids"].t = "arr" /\ Len(r["oids"].a) > 0
                        /\ IsIntLike(r["oids"].a[1])) =>
                      result[c] = Return(IntLike(r["oids"].a[1]))
                /\ ("oids" \notin DOMAIN r /\ "oid" \in DOMAIN r /\ IsIntLike(r["oid"])) =>
                      result[c] = Return(IntLike(r["oid"]))
                /\ opargs[c].r = JObj([k \in {"oids", "errors"} |->
                                        IF k = "oids" THEN JArr(<<JNum(42)>>) ELSE JArr(<<>>)]) =>
                      result[c] = Return(42)
                /\ opargs[c].r = JObj([k \in {"oid"} |-> JStr("42")]) => result[c] = Return(42)
                /\ opargs[c].r = JObj([k \in {"oids", "errors"} |->
                                        IF k = "oids" THEN JArr(<<>>)
                                        ELSE JArr(<<JObj([d \in {"desc"} |-> JStr("bad")])>>)]) =>
                      /\ result[c].kind = "raise"
                      /\ result[c].exc.cls = "GeneralException"
                      /\ result[c].exc.msg = JStr("bad")

\* C19 happens: the plural list held an id, the errors list an error, and the
\* error was raised.
C19_Witness ==
    \E c \in Callers :
        /\ Extracted(c)
        /\ "oids" \in DOMAIN Given(c) /\ Given(c)["oids"] = JArr(<<JNum(42)>>)
        /\ "errors" \in DOMAIN Given(c)
        /\ result[c].kind = "raise"
        /\ result[c].exc.cls = "GeneralException"
        /\ result[c].exc.msg = JStr("bad")

\* C20: the call returns an integer or fails in a defined way: for an id that
\* is a non-numeric string or null, for an empty plural list without errors,
\* and for a response with neither field, the failure is a type error (or an
\* error of the taxonomy), never a lookup error.
C20_FailsWithTypeError ==
    \A c \in Callers :
        Extracted(c) =>
            \/ result[c].kind = "return" /\ result[c].value \in Int
            \/ /\ result[c].kind = "raise"
               /\ result[c].exc.cls \in {"TypeError"} \cup TypedErrorClasses

(***************************************************************************)
(* Properties of the resource paths.                                       *)
(***************************************************************************)
\* Thread c's operation has called request with a resource.
Requested(c, op) == pc[c] # "idle" /\ call[c].op = op /\ "subpath" \in DOMAIN call[c]

\* The str values of the arguments of thread c's operation.
StringArgs(c) ==
    {opargs[c][k].c : k \in {x \in DOMAIN opargs[c] : opargs[c][x].t = "chars"}}

\* C12: every value a domain operation puts in its path went through the
\* int, hex or ident converter of safeformat before request was called: no
\* value with a "/" or another character outside its class is in the path.
C12_PathValuesValidated ==
    \A c \in Callers :
        \A op \in {"get_vouchers", "get_vouchers_history", "verify_purchase"} :
            Requested(c, op) =>
                \A v \in StringArgs(c) : \A i \in 1..Len(v) : v[i] \in WordChars \cup {"-"}

\* The filters of get_vouchers, in the order the claim gives them, and of
\* get_vouchers_history: the argument, and what its fragment starts with.
VouchersFilters ==
    << <<"vid_encoded", "/">>, <<"uid_from", "/from=">>, <<"uid_to", "/to=">>,
       <<"gid", "/gid=">>, <<"valid_after", "/valid_after=">>,
       <<"valid_before", "/valid_before=">>, <<"first", "/first=">>, <<"last", "/last=">> >>

VouchersHistoryFilters ==
    << <<"vid_encoded", "/">>, <<"vid", "/vid=">>, <<"action", "/action=">>,
       <<"uid_from", "/from=">>, <<"uid_to", "/to=">>, <<"gid", "/gid=">>,
       <<"valid_after", "/valid_after=">>, <<"valid_before", "/valid_before=">>,
       <<"create_after", "/create_after=">>, <<"create_before", "/create_before=">>,
       <<"first", "/first=">>, <<"last", "/last=">> >>

\* A filter is present when it is not null, not zero and not empty.
Present(v) == v # JNull /\ v # JNum(0) /\ v # PyS(<<>>)

\* What a present filter's value is written as.
Written(v) == IF v.t = "num" THEN ToString(v.n) ELSE Flat(v.c)

\* The fragments of the present filters, in order, as one string.
RECURSIVE Fragments(_, _)
Fragments(filters, a) ==
    IF filters = <<>> THEN ""
    ELSE (IF Present(a[Head(filters)[1]])
          THEN Head(filters)[2] \o Written(a[Head(filters)[1]])
          ELSE "") \o Fragments(Tail(filters), a)

C21_RevokeUsesVouchersPath ==
    \A c \in Callers :
        Requested(c, "revoke_vouchers") =>
            LET a == opargs[c] IN
            /\ call[c].verb = "delete"
            /\ call[c].data = <<P("{"), Tok("str", "revoke"), P(":"), Tok("lit", "true"), P("}")>>
            /\ Return(call[c].subpath) = GetVouchersResource(a)
            /\ Flat(call[c].subpath) = "vouchers" \o Fragments(VouchersFilters, a)
            /\ (\A k \in DOMAIN a : ~Present(a[k])) => Flat(call[c].subpath) = "vouchers"
            /\ nrequest[c] = 1
            /\ pc[c] = "conn_request" => nhttp[c] = 0
            /\ pc[c] \in {"getresponse", "done"} =>
                  /\ nhttp[c] = 1
                  /\ wire[c].verb = "DELETE"
                  /\ wire[c].data = call[c].data
                  /\ Flat(wire[c].path) = "/broker/v1/vouchers" \o Fragments(VouchersFilters, a)

\* C21 happens: revoke_vouchers(uid_from=0) has sent its DELETE to the bare
\* collection and the call is over.
C21_Witness ==
    \E c \in Callers :
        /\ Requested(c, "revoke_vouchers")
        /\ pc[c] = "done"
        /\ opargs[c].uid_from = JNum(0)
        /\ \A k \in DOMAIN opargs[c] : ~Present(opargs[c][k])
        /\ wire[c].verb = "DELETE"
        /\ Flat(wire[c].path) = "/broker/v1/vouchers"
        /\ nhttp[c] = 1

\* The resource ends with the last= fragment and then the first= fragment.
LastThenFirst(c) ==
    LET n == Len(call[c].subpath) IN
    /\ n >= 4
    /\ call[c].subpath[n - 3] = "/last="
    /\ call[c].subpath[n - 1] = "/first="

\* C23: the listing operations build their fragments in the order of their
\* `:resource:` lines: registry/objects[/<oid>][/since=][/until=][/last=][/first=]
\* for get_objects, vouchers[/<vid_encoded>][/from=][/to=][/valid_after=]
\* [/valid_before=][/last=][/first=] for get_vouchers and revoke_vouchers:
\* when last and first are both given, last= comes before first=.
C23_LastBeforeFirst ==
    \A c \in Callers :
        \A op \in {"get_objects", "get_vouchers", "revoke_vouchers"} :
            (Requested(c, op) /\ Present(opargs[c].last) /\ Present(opargs[c].first)) =>
                LastThenFirst(c)

(***************************************************************************)
(* Properties of get_order and of the codes of the typed errors.           *)
(***************************************************************************)
\* C22: get_order(orderid) requests the single-order resource
\* "orders/<orderid>" whatever the orderid, never the collection "orders/";
\* get_orders(orderid=x) has <orderid> in its path whenever one was passed.
C22_GetOrderRequestsOneOrder ==
    \A c \in Callers :
        (pc[c] # "idle" /\ call[c].op = "get_order") =>
            /\ Flat(call[c].subpath) = "orders/" \o ToString(opargs[c].orderid)
            /\ Flat(call[c].subpath) # "orders/"

\* C24: every typed error request raises for a completed response has the
\* HTTP status of the response as its code: for well-formed error envelopes,
\* for bodies that are not JSON, and for malformed envelopes too.
C24_ErrorCodeIsStatus ==
    \A c \in Callers :
        (Completed(c) /\ result[c].kind = "raise"
             /\ result[c].exc.cls \in TypedErrorClasses) =>
            result[c].exc.code = resp[c].status

====
